---- MODULE Spec2Model ----
(***************************************************************************)
(* Model of the opportunity-detection core of the currency exchange        *)
(* trader: TradingStrategies (src/src/trade/strategies.py) and the parts   *)
(* of TradingBot (src/src/bot.py) and of the CLI (src/main.py) that call   *)
(* it.                                                                     *)
(*                                                                         *)
(* Texts are sequences of one-character strings.  The character "N"        *)
(* stands for a run of 400 consecutive '9' digits, so that a text of a few *)
(* symbols can hold a digit run whose value exceeds the largest double.    *)
(* Floats are exact rationals [k |-> "fin", n, d] in lowest terms, plus    *)
(* the two non-finite doubles PosInf and NaN.  A Python exception is the   *)
(* value [k |-> "raise", exc |-> <name>].                                  *)
(***************************************************************************)
EXTENDS Integers, Sequences, FiniteSets, TLC

VARIABLES
    text,               \* the text handed to parse_ratio
    parsed,             \* what parse_ratio(text) returned, or None
    prefixed,           \* what parse_ratio returned for '<' or '>' + text
    now,                \* datetime.now(), in minutes since the process started
    market_history,     \* TradingStrategies.market_history, in dict order
    known_currencies,   \* TradingStrategies.known_currencies
    recorded,           \* history variable: pairs of all completed records
    records,            \* history variable: number of completed records
    snapshot,           \* the market_data the caller holds, None before the first
    result,             \* what analyze_market has just returned, else None
    walk,               \* history variable: the order in which the analysis
                        \* observed walked the set known_currencies, else None
    again,              \* what a second analyze_market right after returned
    measured,           \* a call of calculate_volatility: the pair and the value
    picked,             \* the best_opp execute_trade chose, with what it saw
    worth,              \* a call of evaluate_opportunity: what it returned
    attempt,            \* the last update_market_history of the test mode
    pc,                 \* where a second scanner stands in update_market_history
    pending,            \* the pair, data and time of that scanner's record
    clock,              \* datetime.now() of the bot, in seconds
    last_trade_time,    \* TradingBot.last_trade_time, in seconds
    traded              \* how the last execute_trade of the bot ended

parseVars == <<text, parsed, prefixed>>
engineVars == <<now, market_history, known_currencies, recorded, records,
                snapshot, result, walk>>
callVars == <<again, measured, picked, worth, attempt, pc, pending,
              clock, last_trade_time, traded>>
vars == <<text, parsed, prefixed, now, market_history, known_currencies,
          recorded, records, snapshot, result, walk,
          again, measured, picked, worth, attempt, pc, pending,
          clock, last_trade_time, traded>>

\* ------------------------------------------------------------------ bounds
\* longest ratio text fed to parse_ratio in SpecParse
MaxLen == 4

\* last value of the clock, in minutes
MaxTime == 45
\* number of update_market_history calls in one run
MaxRecords == 3
\* seconds of wall-clock time the runs of the bot cover
MaxClock == 70

None == [k |-> "none"]

\* ------------------------------------------------------------ float values
RECURSIVE GCD(_, _)
GCD(a, b) == IF b = 0 THEN a ELSE GCD(b, a % b)

Abs(x) == IF x < 0 THEN -x ELSE x

\* the rational n/d (d # 0) in lowest terms with a positive denominator
Fin(n, d) ==
    LET s == IF d < 0 THEN -1 ELSE 1
        g == GCD(Abs(n), Abs(d))
    IN  [k |-> "fin", n |-> (s * n) \div g, d |-> (s * d) \div g]

Zero == Fin(0, 1)
PosInf == [k |-> "inf"]
NaN == [k |-> "nan"]
Raise(e) == [k |-> "raise", exc |-> e]

IsFin(x) == x.k = "fin"

NegInf == [k |-> "ninf"]
IsNaN(x) == x.k = "nan"
IsInfinite(x) == x.k \in {"inf", "ninf"}

\* -1, 0 or 1 for a float that is not nan
Sign(x) ==
    CASE x.k = "inf" -> 1
      [] x.k = "ninf" -> -1
      [] x.k = "fin" -> (IF x.n > 0 THEN 1 ELSE IF x.n < 0 THEN -1 ELSE 0)

Signed(s) == IF s > 0 THEN PosInf ELSE NegInf

FloatNeg(x) ==
    CASE x.k = "fin" -> Fin(-x.n, x.d)
      [] x.k = "inf" -> NegInf
      [] x.k = "ninf" -> PosInf
      [] x.k = "nan" -> NaN

\* x + y
FloatAdd(x, y) ==
    IF IsNaN(x) \/ IsNaN(y) THEN NaN
    ELSE IF IsInfinite(x) THEN (IF IsInfinite(y) /\ y # x THEN NaN ELSE x)
    ELSE IF IsInfinite(y) THEN y
    ELSE Fin(x.n * y.d + y.n * x.d, x.d * y.d)

\* mutant of FloatSub: y - x
FloatSubSwapped(x, y) == FloatAdd(y, FloatNeg(x))

\* x - y
FloatSub(x, y) == FloatAdd(x, FloatNeg(y))

\* x * y
FloatMul(x, y) ==
    IF IsNaN(x) \/ IsNaN(y) THEN NaN
    ELSE IF IsInfinite(x) \/ IsInfinite(y) THEN
        (IF Sign(x) * Sign(y) = 0 THEN NaN ELSE Signed(Sign(x) * Sign(y)))
    ELSE Fin(x.n * y.n, x.d * y.d)

\* x / y of two Python floats: ZeroDivisionError for a zero divisor
FloatDiv(x, y) ==
    IF IsFin(y) /\ y.n = 0 THEN Raise("ZeroDivisionError")
    ELSE IF IsNaN(x) \/ IsNaN(y) THEN NaN
    ELSE IF IsInfinite(x) THEN
        (IF IsInfinite(y) THEN NaN ELSE Signed(Sign(x) * Sign(y)))
    ELSE IF IsInfinite(y) THEN Zero
    ELSE Fin(x.n * y.d, x.d * y.n)

\* x < y; every comparison with nan is false
FloatLt(x, y) ==
    IF IsNaN(x) \/ IsNaN(y) THEN FALSE
    ELSE IF x.k = "inf" \/ y.k = "ninf" THEN FALSE
    ELSE IF x.k = "ninf" \/ y.k = "inf" THEN TRUE
    ELSE x.n * y.d < y.n * x.d

FloatGt(x, y) == FloatLt(y, x)
FloatLe(x, y) == ~IsNaN(x) /\ ~IsNaN(y) /\ ~FloatLt(y, x)

\* mutant of FloatAbs: the sign is kept
FloatAbsNone(x) == x

\* abs(x)
FloatAbs(x) == IF ~IsNaN(x) /\ Sign(x) < 0 THEN FloatNeg(x) ELSE x

\* the builtins min(a, b) and max(a, b): the first argument unless the
\* second is strictly smaller (larger)
\* mutants of PyMin and PyMax: the first argument whatever the second
PyMinFirst(a, b) == a
PyMaxFirst(a, b) == a

PyMin(a, b) == IF FloatLt(b, a) THEN b ELSE a
PyMax(a, b) == IF FloatGt(b, a) THEN b ELSE a

\* min(list) and max(list) of a non-empty list
RECURSIVE PyMinList(_)
PyMinList(s) ==
    IF Len(s) = 1 THEN s[1] ELSE PyMin(PyMinList(SubSeq(s, 1, Len(s) - 1)), s[Len(s)])
RECURSIVE PyMaxList(_)
PyMaxList(s) ==
    IF Len(s) = 1 THEN s[1] ELSE PyMax(PyMaxList(SubSeq(s, 1, Len(s) - 1)), s[Len(s)])

\* float.is_integer()
is_integer(x) == IsFin(x) /\ x.d = 1

\* mutant of MinInt: the first argument whatever the second
MinIntFirst(a, b) == a

\* min(a, b) of two ints
MinInt(a, b) == IF b < a THEN b ELSE a

\* ------------------------------------------------------------------- texts
Digits == {"0", "1", "3", "5"}
Alphabet == Digits \cup {"N", ".", ":", "<", ">", " ", "x"}

\* the symbols of the texts SpecParse enumerates
ParseAlphabet == Alphabet \ {"5"}

Texts(len) == UNION {[1..n -> ParseAlphabet] : n \in 0..len}

DigitVal(c) == CASE c = "0" -> 0 [] c = "1" -> 1 [] c = "3" -> 3 [] c = "5" -> 5

\* str.isdigit() of one character ("N" is a run of digits)
isdigit(c) == c \in Digits \cup {"N"}

Count(s, c) == Cardinality({i \in 1..Len(s) : s[i] = c})

\* mutants of KeepNumeric: one loses the decimal point, one strips nothing
KeepDigits(s) == SelectSeq(s, LAMBDA c : isdigit(c))
KeepAll(s) == s

\* ''.join(c for c in s if c.isdigit() or c == '.')
KeepNumeric(s) == SelectSeq(s, LAMBDA c : isdigit(c) \/ c = ".")

\* str.strip()
RECURSIVE lstrip(_)
lstrip(s) == IF s # <<>> /\ Head(s) = " " THEN lstrip(Tail(s)) ELSE s
RECURSIVE rstrip(_)
rstrip(s) ==
    IF s # <<>> /\ s[Len(s)] = " " THEN rstrip(SubSeq(s, 1, Len(s) - 1)) ELSE s
strip(s) == rstrip(lstrip(s))

RECURSIVE Pow10(_)
Pow10(e) == IF e = 0 THEN 1 ELSE 10 * Pow10(e - 1)

\* value of a sequence of plain digits read as a decimal integer
RECURSIVE DigitsValue(_)
DigitsValue(s) ==
    IF s = <<>> THEN 0
    ELSE 10 * DigitsValue(SubSeq(s, 1, Len(s) - 1)) + DigitVal(s[Len(s)])

FirstIndex(s, c) == CHOOSE i \in 1..Len(s) : s[i] = c /\ \A j \in 1..(i - 1) : s[j] # c

\* float(s) for the texts parse_ratio hands it, made of digits and '.':
\* ValueError unless there is at least one digit and at most one '.' (and for
\* any other symbol); a 400-digit run in the integer part overflows to inf;
\* in the fraction it rounds up to the next unit of the digit before it.
float(s) ==
    IF \/ Count(s, ".") > 1
       \/ Len(s) - Count(s, ".") < 1
       \/ \E i \in 1..Len(s) : ~isdigit(s[i]) /\ s[i] # "."
    THEN Raise("ValueError")
    ELSE
        LET \* ip and fp: the integer part and the fraction; the fraction counts
            \* up to its first long run, which rounds it up
            Value(ip, fp) ==
                LET cut == IF Count(fp, "N") > 0 THEN FirstIndex(fp, "N") - 1 ELSE Len(fp)
                    up  == IF Count(fp, "N") > 0 THEN 1 ELSE 0
                IN  IF Count(ip, "N") > 0 THEN PosInf
                    ELSE Fin(DigitsValue(ip) * Pow10(cut)
                               + DigitsValue(SubSeq(fp, 1, cut)) + up, Pow10(cut))
            Split(dot) == Value(SubSeq(s, 1, dot - 1), SubSeq(s, dot + 1, Len(s)))
        IN  Split(IF Count(s, ".") = 1 THEN FirstIndex(s, ".") ELSE Len(s) + 1)

\* ratio_str.split(':') unpacked into exactly two names
SplitColon(s) ==
    IF Count(s, ":") # 1 THEN Raise("ValueError")
    ELSE LET i == FirstIndex(s, ":")
         IN  [k |-> "ok", num |-> SubSeq(s, 1, i - 1), denom |-> SubSeq(s, i + 1, Len(s))]

\* ------------------------------------------------------------- parse_ratio
RECURSIVE parse_ratio(_)

\* the body of the try block of parse_ratio
parse_ratio_try(ratio_str) ==
    IF Count(ratio_str, ":") > 0 THEN
        LET \* float(num) / float(denom), left operand first
            Divide(fnum, fden) ==
                IF fnum.k = "raise" THEN fnum
                ELSE IF fden.k = "raise" THEN fden
                ELSE FloatDiv(fnum, fden)
            Sides(num, denom) ==
                IF num = <<>> \/ denom = <<>> THEN Zero
                ELSE Divide(float(num), float(denom))
            Unpacked(sp) ==
                IF sp.k = "raise" THEN sp
                ELSE Sides(KeepNumeric(sp.num), KeepNumeric(sp.denom))
        IN  Unpacked(SplitColon(ratio_str))
    ELSE IF ratio_str # <<>> /\ Head(ratio_str) \in {"<", ">"} THEN
        parse_ratio(strip(Tail(ratio_str)))
    ELSE IF LET t == SelectSeq(ratio_str, LAMBDA c : c # ".")
            IN  t # <<>> /\ \A i \in 1..Len(t) : isdigit(t[i]) THEN
        float(ratio_str)
    ELSE Zero

\* except (ValueError, ZeroDivisionError): return 0.0
Caught(r, excs) == IF r.k = "raise" /\ r.exc \in excs THEN Zero ELSE r

parse_ratio(ratio_str) ==
    Caught(parse_ratio_try(ratio_str), {"ValueError", "ZeroDivisionError"})

\* ------------------------------------------------------------------- inputs
Currencies == {"divine", "exalt", "chaos"}
Pairs == {<<"divine", "exalt">>, <<"exalt", "chaos">>, <<"chaos", "divine">>}
TickSteps == {15}

T(str) == CASE str = "3:1"   -> <<"3", ":", "1">>
            [] str = "1:3"   -> <<"1", ":", "3">>
            [] str = "1:1"   -> <<"1", ":", "1">>
            [] str = "3.5:1" -> <<"3", ".", "5", ":", "1">>
            [] str = ">3:1"  -> <<">", "3", ":", "1">>
            [] str = "1:0"   -> <<"1", ":", "0">>
            [] str = "x"     -> <<"x">>
            [] str = "N:1"   -> <<"N", ":", "1">>
            [] str = "100.5:1" -> <<"1", "0", "0", ".", "5", ":", "1">>
            [] str = "100:1" -> <<"1", "0", "0", ":", "1">>
            [] str = "101:1" -> <<"1", "0", "1", ":", "1">>
            [] str = "105:1" -> <<"1", "0", "5", ":", "1">>
            [] str = "110:1" -> <<"1", "1", "0", ":", "1">>

Trade(ratio, stock) == [ratio |-> T(ratio), stock |-> stock]

MarketData(pair, market_ratio, available_trades, competing_trades) ==
    [i_want |-> pair[1], i_have |-> pair[2], market_ratio |-> T(market_ratio),
     available_trades |-> available_trades, competing_trades |-> competing_trades]

\* the order books the scans of the model return
Books ==
    { <<"3.5:1", <<Trade("3:1", 1500), Trade("3.5:1", 50)>>, <<Trade("3.5:1", 50)>>>>,
      <<"1:1",   <<Trade("1:0", 50)>>,                       <<Trade("x", 0)>>>>,
      <<"x",     <<>>,                                       <<>>>> }

Snapshots == {MarketData(p, b[1], b[2], b[3]) : p \in Pairs, b \in Books}

\* the order books the latest market data file of the CLI can hold
LatestBooks ==
    { <<m, a, c>> :
        m \in {"3.5:1", "3:1", "1:3", "100.5:1", "x"},
        a \in { <<>>,
                <<Trade("3:1", 50)>>,
                <<Trade("3.5:1", 50)>>,
                <<Trade("3.5:1", 50), Trade("1:3", 1500)>>,
                <<Trade("3:1", 50), Trade("1:3", 1500)>>,
                <<Trade("x", 0), Trade(">3:1", 50)>>,
                <<Trade("N:1", 50)>> },
        c \in { <<>>, <<Trade("1:3", 50)>> } }

LatestSnapshots == {MarketData(p, b[1], b[2], b[3]) : p \in Pairs, b \in LatestBooks}

\* every ratio text of the books
RatioTexts ==
    {T(str) : str \in {"3:1", "1:3", "1:1", "3.5:1", ">3:1", "1:0", "x", "N:1",
                       "100.5:1", "100:1", "101:1", "105:1", "110:1"}}

\* parse_ratio tabulated over the ratio texts of the books
ParseTable == [t \in RatioTexts |-> parse_ratio(t)]
parse(t) == ParseTable[t]

\* ------------------------------------------------ TradingStrategies.__init__
\* timedelta(minutes=30)
history_window == 30
min_profit_threshold == Fin(15, 1000)
max_trade_volume == 1000

\* ----------------------------------------------------------- market_history
\* The dict is the sequence of its items in insertion order; an item is
\* [key |-> (want, have), timestamp |-> t, data |-> d].
HasKey(h, key) == \E i \in 1..Len(h) : h[i].key = key
Item(h, key) == h[CHOOSE i \in 1..Len(h) : h[i].key = key]
Keys(h) == {h[i].key : i \in 1..Len(h)}

\* h[key] = value: a present key keeps its place, a new key goes last
SetItemAppend(h, key, value) == Append(h, [key |-> key] @@ value)

SetItem(h, key, value) ==
    IF HasKey(h, key)
    THEN [i \in 1..Len(h) |-> IF h[i].key = key THEN [key |-> key] @@ value ELSE h[i]]
    ELSE Append(h, [key |-> key] @@ value)

\* mutant of Fresh: an entry at the cutoff itself is kept
FreshInclusive(v, cutoff) == v.timestamp >= cutoff

\* mutant of Fresh: the cutoff is the time of the call itself
FreshAfterNow(v, cutoff) == v.timestamp > cutoff + history_window

\* if v['timestamp'] > cutoff
Fresh(v, cutoff) == v.timestamp > cutoff

\* {k: v for k, v in h.items() if v['timestamp'] > cutoff}
CleanOld(h, cutoff) == SelectSeq(h, LAMBDA v : Fresh(v, cutoff))

\* mutant of AddKnown: the set is rebuilt from the pairs still tracked
AddKnownFromHistory(known, pair, h) == UNION {{k[1], k[2]} : k \in Keys(h)}

\* known_currencies.add(pair[0]); known_currencies.add(pair[1])
AddKnown(known, pair, h) == known \cup {pair[1], pair[2]}

\* ------------------------------------------------------- numpy on a list
RECURSIVE FloatSum(_)
FloatSum(s) ==
    IF s = <<>> THEN Zero ELSE FloatAdd(FloatSum(SubSeq(s, 1, Len(s) - 1)), s[Len(s)])

\* largest r in lo..hi with r * r <= n
RECURSIVE Isqrt(_, _, _)
Isqrt(n, lo, hi) ==
    IF lo >= hi THEN lo
    ELSE LET mid == (lo + hi + 1) \div 2
         IN  IF mid * mid <= n THEN Isqrt(n, mid, hi) ELSE Isqrt(n, lo, mid - 1)

\* sqrt(x): exact when x is the square of a rational, else cut to 1/100
FloatSqrt(x) ==
    IF ~IsFin(x) THEN (IF x.k = "inf" THEN PosInf ELSE NaN)
    ELSE IF x.n < 0 THEN NaN
    ELSE LET m == x.n * x.d
             r == Isqrt(m, 0, m)
         IN  IF r * r = m THEN Fin(r, x.d)
             ELSE Fin(Isqrt(m * 10000, 0, m * 100), x.d * 100)

\* np.mean(ratios) of a non-empty list
np_mean(ratios) == FloatDiv(FloatSum(ratios), Fin(Len(ratios), 1))

\* np.std(ratios): population standard deviation
np_std(ratios) ==
    LET Squares(mean) ==
            [i \in 1..Len(ratios) |->
                FloatMul(FloatSub(ratios[i], mean), FloatSub(ratios[i], mean))]
    IN  FloatSqrt(np_mean(Squares(np_mean(ratios))))

\* [parse(t['ratio']) for t in trades], or the first exception
ParseAll(trades) ==
    LET Listed(rs) ==
            IF \E i \in 1..Len(rs) : rs[i].k = "raise"
            THEN rs[CHOOSE i \in 1..Len(rs) :
                       rs[i].k = "raise" /\ \A j \in 1..(i - 1) : rs[j].k # "raise"]
            ELSE [k |-> "list", items |-> rs]
    IN  Listed([i \in 1..Len(trades) |-> parse(trades[i].ratio)])

\* --------------------------------------------------- calculate_volatility
\* mutant of calculate_volatility_try: the first available quote only
calculate_volatility_first(h, currency_pair) ==
    LET Valid(ratios) ==
            IF ratios = <<>> THEN Zero
            ELSE FloatDiv(np_std(ratios), np_mean(ratios))
        Parsed(all) ==
            IF all.k = "raise" THEN all
            ELSE IF all.items = <<>> THEN Zero
            ELSE Valid(SelectSeq(SubSeq(all.items, 1, 1), LAMBDA r : FloatGt(r, Zero)))
    IN  Parsed(ParseAll(Item(h, currency_pair).data.available_trades))

calculate_volatility_try(h, currency_pair) ==
    LET Valid(ratios) ==
            IF ratios = <<>> THEN Zero
            ELSE FloatDiv(np_std(ratios), np_mean(ratios))
        Parsed(all) ==
            IF all.k = "raise" THEN all
            ELSE IF all.items = <<>> THEN Zero
            ELSE Valid(SelectSeq(all.items, LAMBDA r : FloatGt(r, Zero)))
    IN  Parsed(ParseAll(Item(h, currency_pair).data.available_trades))

calculate_volatility(h, currency_pair) ==
    IF ~HasKey(h, currency_pair) THEN Zero
    ELSE Caught(calculate_volatility_try(h, currency_pair),
                {"KeyError", "ValueError", "ZeroDivisionError"})

\* ------------------------------------------ find_integer_ratio_opportunities
\* mutant of IntegerScan: the loop does not stop at the first integer quote
RECURSIVE IntegerScanLast(_, _)
IntegerScanLast(market_data, i) ==
    IF i > Len(market_data.available_trades) THEN None
    ELSE
        LET trade == market_data.available_trades[i]
            Body(ratio, later) ==
                IF ratio.k = "raise" THEN ratio
                ELSE IF later # None THEN later
                ELSE IF FloatGt(ratio, Zero)
                        /\ (is_integer(ratio) \/ is_integer(FloatDiv(Fin(1, 1), ratio)))
                THEN [k |-> "opp",
                      buy_currency |-> market_data.i_want,
                      sell_currency |-> market_data.i_have,
                      buy_ratio |-> trade.ratio,
                      sell_ratio |-> market_data.market_ratio,
                      potential_profit |-> Fin(5, 100),
                      trade_volume |-> MinInt(100, trade.stock),
                      confidence |-> Fin(8, 10)]
                ELSE None
        IN  Body(parse(trade.ratio), IntegerScanLast(market_data, i + 1))

\* the for loop over available_trades from index i on
RECURSIVE IntegerScan(_, _)
IntegerScan(market_data, i) ==
    IF i > Len(market_data.available_trades) THEN None
    ELSE
        LET trade == market_data.available_trades[i]
            Body(ratio) ==
                IF ratio.k = "raise" THEN ratio
                ELSE IF FloatGt(ratio, Zero)
                        /\ (is_integer(ratio) \/ is_integer(FloatDiv(Fin(1, 1), ratio)))
                THEN [k |-> "opp",
                      buy_currency |-> market_data.i_want,
                      sell_currency |-> market_data.i_have,
                      buy_ratio |-> trade.ratio,
                      sell_ratio |-> market_data.market_ratio,
                      potential_profit |-> Fin(5, 100),
                      trade_volume |-> MinInt(100, trade.stock),
                      confidence |-> Fin(8, 10)]
                ELSE IntegerScan(market_data, i + 1)
        IN  Body(parse(trade.ratio))

\* except (...): pass, then return None
CaughtNone(r, excs) == IF r.k = "raise" /\ r.exc \in excs THEN None ELSE r

find_integer_ratio_opportunities(market_data) ==
    CaughtNone(IntegerScan(market_data, 1), {"ValueError", "ZeroDivisionError"})

\* ------------------------------------------------- find_spread_opportunities
find_spread_try(market_data) ==
    LET best_available == market_data.available_trades[1]
        best_competing == market_data.competing_trades[1]
        Spread(spread) ==
            IF spread.k = "raise" THEN spread
            ELSE IF FloatGt(spread, Fin(5, 100)) THEN
                [k |-> "opp",
                 buy_currency |-> market_data.i_want,
                 sell_currency |-> market_data.i_have,
                 buy_ratio |-> best_available.ratio,
                 sell_ratio |-> best_competing.ratio,
                 potential_profit |-> spread,
                 trade_volume |-> MinInt(100, best_available.stock),
                 confidence |-> PyMin(Fin(9, 10), FloatMul(spread, Fin(10, 1)))]
            ELSE None
        Compare(avail_ratio, comp_ratio) ==
            IF avail_ratio.k = "raise" THEN avail_ratio
            ELSE IF comp_ratio.k = "raise" THEN comp_ratio
            ELSE IF FloatGt(avail_ratio, Zero) /\ FloatGt(comp_ratio, Zero) THEN
                Spread(FloatDiv(FloatAbs(FloatSub(avail_ratio, comp_ratio)),
                                PyMin(avail_ratio, comp_ratio)))
            ELSE None
    IN  Compare(parse(best_available.ratio), parse(best_competing.ratio))

find_spread_opportunities(market_data) ==
    IF market_data.available_trades = <<>> \/ market_data.competing_trades = <<>>
    THEN None
    ELSE CaughtNone(find_spread_try(market_data),
                    {"ValueError", "IndexError", "ZeroDivisionError"})

\* ------------------------------------------------------------------ sorted
\* mutant of SortedDesc: the list is left as it was collected
Unsorted(opps, field) == opps

\* sorted(opps, key=lambda x: x[field], reverse=True): stable, descending
RECURSIVE SortedDesc(_, _)
SortedDesc(opps, field) ==
    IF opps = <<>> THEN <<>>
    ELSE LET front == SortedDesc(SubSeq(opps, 1, Len(opps) - 1), field)
             x     == opps[Len(opps)]
             \* x goes behind every element that is not smaller than it
             keep  == Cardinality({i \in 1..Len(front) :
                          \A j \in 1..i : ~FloatLt(front[j][field], x[field])})
         IN  SubSeq(front, 1, keep) \o <<x>> \o SubSeq(front, keep + 1, Len(front))

\* the text f"{rate}:1" of a leg, bid or ask
FormatRatio(rate) == [fstring |-> "{}:1", value |-> rate]

\* --------------------------------------------------- find_triangle_arbitrage
\* the orders in which a for loop can walk the set known_currencies
IterationOrders(S) ==
    {o \in [1..Cardinality(S) -> S] : \A i, j \in 1..Cardinality(S) : o[i] = o[j] => i = j}

\* mutant of Triples: every set of three currencies is visited once only
TriplesOnce(order) ==
    LET n == Len(order)
        all == [i \in 1..(n * n * n) |->
                  <<((i - 1) \div (n * n)) + 1, (((i - 1) \div n) % n) + 1,
                    ((i - 1) % n) + 1>>]
        once == SelectSeq(all, LAMBDA t : t[1] < t[2] /\ t[2] < t[3])
    IN  [i \in 1..Len(once) |-> <<order[once[i][1]], order[once[i][2]], order[once[i][3]]>>]

\* the triples (c1, c2, c3) in the order the three nested loops visit them
Triples(order) ==
    LET n == Len(order)
        all == [i \in 1..(n * n * n) |->
                  <<order[((i - 1) \div (n * n)) + 1],
                    order[(((i - 1) \div n) % n) + 1],
                    order[((i - 1) % n) + 1]>>]
    IN  SelectSeq(all, LAMBDA t : t[2] # t[1] /\ t[3] # t[1] /\ t[3] # t[2])

\* mutant of TriangleLeg: the empty-list guard is missing
TriangleLegUnguarded(h, key) ==
    IF ~HasKey(h, key) THEN [k |-> "skip"]
    ELSE LET Rated(first_trade, rate) ==
                 IF rate.k = "raise" THEN rate
                 ELSE IF FloatLe(rate, Zero) THEN [k |-> "skip"]
                 ELSE [k |-> "leg", rate |-> rate, volume |-> first_trade.stock]
             First(first_trade) == Rated(first_trade, parse(first_trade.ratio))
             Latest(latest) ==
                 IF latest.available_trades = <<>> THEN Raise("IndexError")
                 ELSE First(latest.available_trades[1])
         IN  Latest(Item(h, key).data)

\* mutant of TriangleLeg: a pair scanned in the other direction serves too
TriangleLegEitherWay(h, key) ==
    IF ~HasKey(h, key) /\ ~HasKey(h, <<key[2], key[1]>>) THEN [k |-> "skip"]
    ELSE LET Rated(first_trade, rate) ==
                 IF rate.k = "raise" THEN rate
                 ELSE IF FloatLe(rate, Zero) THEN [k |-> "skip"]
                 ELSE [k |-> "leg", rate |-> rate, volume |-> first_trade.stock]
             First(first_trade) == Rated(first_trade, parse(first_trade.ratio))
             Latest(latest) ==
                 IF latest.available_trades = <<>> THEN [k |-> "skip"]
                 ELSE First(latest.available_trades[1])
         IN  Latest(Item(h, IF HasKey(h, key) THEN key ELSE <<key[2], key[1]>>).data)

\* one pass of the loop over the three pairs of a triple
TriangleLeg(h, key) ==
    IF ~HasKey(h, key) THEN [k |-> "skip"]
    ELSE LET Rated(first_trade, rate) ==
                 IF rate.k = "raise" THEN rate
                 ELSE IF FloatLe(rate, Zero) THEN [k |-> "skip"]
                 ELSE [k |-> "leg", rate |-> rate, volume |-> first_trade.stock]
             First(first_trade) == Rated(first_trade, parse(first_trade.ratio))
             Latest(latest) ==
                 IF latest.available_trades = <<>> THEN [k |-> "skip"]
                 ELSE First(latest.available_trades[1])
         IN  Latest(Item(h, key).data)

\* the body of the innermost loop: an opportunity, nothing, or an exception
TriangleOf(h, t) ==
    LET pairs == << <<t[1], t[2]>>, <<t[2], t[3]>>, <<t[3], t[1]>> >>
        Profit(legs, profit) ==
            IF FloatGt(profit, min_profit_threshold) THEN
                [k |-> "opp",
                 step1 |-> <<t[1], t[2], FormatRatio(legs[1].rate)>>,
                 step2 |-> <<t[2], t[3], FormatRatio(legs[2].rate)>>,
                 step3 |-> <<t[3], t[1], FormatRatio(legs[3].rate)>>,
                 total_profit |-> profit,
                 min_volume |->
                     MinInt(MinInt(MinInt(legs[1].volume, legs[2].volume),
                                   legs[3].volume),
                            max_trade_volume),
                 confidence |-> PyMin(FloatMul(profit, Fin(3, 1)), Fin(1, 1))]
            ELSE None
        TotalRate(legs, total_rate) == Profit(legs, FloatSub(total_rate, Fin(1, 1)))
        Legs(legs) ==
            IF \E i \in 1..3 : legs[i].k = "raise"
            THEN legs[CHOOSE i \in 1..3 :
                         legs[i].k = "raise" /\ \A j \in 1..(i - 1) : legs[j].k # "raise"]
            ELSE IF \E i \in 1..3 : legs[i].k = "skip" THEN None
            ELSE TotalRate(legs, FloatMul(FloatMul(legs[1].rate, legs[2].rate),
                                          legs[3].rate))
    IN  Legs([i \in 1..3 |-> TriangleLeg(h, pairs[i])])

\* a list of per-iteration outcomes: the first exception, else the
\* opportunities in order
Collect(outs) ==
    IF \E i \in 1..Len(outs) : outs[i].k = "raise"
    THEN outs[CHOOSE i \in 1..Len(outs) :
                 outs[i].k = "raise" /\ \A j \in 1..(i - 1) : outs[j].k # "raise"]
    ELSE [k |-> "list", items |-> SelectSeq(outs, LAMBDA o : o.k = "opp")]

find_triangle_arbitrage(h, known, order) ==
    IF Cardinality(known) < 3 THEN [k |-> "list", items |-> <<>>]
    ELSE LET Sorted(outs) ==
                 IF outs.k = "raise" THEN outs
                 ELSE [k |-> "list", items |-> SortedDesc(outs.items, "total_profit")]
             Walk(ts) == Sorted(Collect([i \in 1..Len(ts) |-> TriangleOf(h, ts[i])]))
         IN  Walk(Triples(order))

\* ------------------------------------------ find_market_making_opportunities
\* the try block for one item of market_history
MarketMakingTry(h, item) ==
    LET history == item.data
        latest == history.available_trades[1]
        volume == latest.stock
        Scored(bid, ask, spread, volatility, confidence) ==
            IF FloatGt(confidence, Fin(5, 10)) THEN
                [k |-> "opp",
                 currency_pair |-> item.key,
                 bid_price |-> FormatRatio(bid),
                 ask_price |-> FormatRatio(ask),
                 spread |-> spread,
                 volume |-> volume,
                 volatility |-> volatility,
                 confidence |-> confidence]
            ELSE None
        Scores(bid, ask, spread, volatility,
               volume_score, volatility_score, spread_score) ==
            Scored(bid, ask, spread, volatility,
                   FloatDiv(FloatAdd(FloatAdd(volume_score, volatility_score),
                                     spread_score), Fin(3, 1)))
        Metrics(bid, ask, spread, volatility) ==
            Scores(bid, ask, spread, volatility,
                   PyMin(Fin(volume, 1000), Fin(1, 1)),
                   PyMax(Zero, FloatSub(Fin(1, 1), FloatMul(volatility, Fin(10, 1)))),
                   PyMin(FloatMul(spread, Fin(5, 1)), Fin(1, 1)))
        Spread(bid, ask, spread) ==
            IF spread.k = "raise" THEN spread
            ELSE Metrics(bid, ask, spread, calculate_volatility(h, item.key))
        BidAsk(bid, ask) ==
            IF FloatLe(bid, Zero) \/ FloatLe(ask, Zero) THEN None
            ELSE Spread(bid, ask, FloatDiv(FloatSub(ask, bid), bid))
        Prices(current_ratio, available_prices, competing_prices) ==
            IF current_ratio.k = "raise" THEN current_ratio
            ELSE IF available_prices.k = "raise" THEN available_prices
            ELSE IF competing_prices.k = "raise" THEN competing_prices
            ELSE BidAsk(PyMinList(available_prices.items),
                        PyMaxList(competing_prices.items))
    IN  IF history.available_trades = <<>> \/ history.competing_trades = <<>> THEN None
        ELSE Prices(parse(latest.ratio),
                    ParseAll(history.available_trades),
                    ParseAll(history.competing_trades))

\* mutant of find_market_making_opportunities: a pair needs 5 history
\* entries, which no pair of a dict keyed by pair has
find_market_making_five_entries(h) == [k |-> "list", items |-> <<>>]

find_market_making_opportunities(h) ==
    LET Sorted(outs) ==
            IF outs.k = "raise" THEN outs
            ELSE [k |-> "list", items |-> SortedDesc(outs.items, "confidence")]
    IN  Sorted(Collect([i \in 1..Len(h) |->
                   CaughtNone(MarketMakingTry(h, h[i]),
                              {"KeyError", "IndexError", "ValueError"})]))

\* ------------------------------------------------------------ analyze_market
\* the results analyze_market can return: one for each order in which the
\* loops of find_triangle_arbitrage can walk the set known_currencies
analyze_market(h, known, orders, market_data) ==
    LET Returned(integer_opp, spread_opp, triangle_opps, making_opps) ==
            IF integer_opp.k = "raise" THEN integer_opp
            ELSE IF spread_opp.k = "raise" THEN spread_opp
            ELSE IF triangle_opps.k = "raise" THEN triangle_opps
            ELSE IF making_opps.k = "raise" THEN making_opps
            ELSE [k |-> "dict",
                  items |->
                    [basic |-> (IF integer_opp # None
                                THEN << <<"Integer Ratio", integer_opp>> >> ELSE <<>>)
                               \o (IF spread_opp # None
                                   THEN << <<"Spread", spread_opp>> >> ELSE <<>>),
                     triangle |-> triangle_opps.items,
                     market_making |-> making_opps.items]]
        Results(integer_opp, spread_opp, making_opps) ==
            {Returned(integer_opp, spread_opp,
                      find_triangle_arbitrage(h, known, order), making_opps)
               : order \in orders}
    IN  Results(find_integer_ratio_opportunities(market_data),
                find_spread_opportunities(market_data),
                find_market_making_opportunities(h))

\* ------------------------------------------------------ a fresh TradingBot
\* datetime.min, long before the process started
datetime_min == -1000000

\* no call has been made, no second scanner is recording, the bot has not
\* traded
CallInit ==
    /\ again = None
    /\ measured = None
    /\ picked = None
    /\ worth = None
    /\ attempt = None
    /\ pc = "idle"
    /\ pending = None
    /\ clock = 0
    /\ last_trade_time = datetime_min
    /\ traded = None

\* ------------------------------------------------ a fresh TradingStrategies
EngineInit ==
    /\ now = 0
    /\ market_history = <<>>
    /\ known_currencies = {}
    /\ recorded = {}
    /\ records = 0
    /\ snapshot = None
    /\ result = None
    /\ walk = None
    /\ CallInit

\* --------------------------------------------- SpecParse: parse_ratio alone
ParseInit ==
    /\ text \in Texts(MaxLen)
    /\ parsed = None
    /\ prefixed = None
    /\ EngineInit

ParseRatio ==
    /\ parsed = None
    /\ parsed' = parse_ratio(text)
    /\ UNCHANGED <<text, prefixed>>
    /\ UNCHANGED engineVars
    /\ UNCHANGED callVars

ParsePrefixed ==
    /\ parsed # None
    /\ prefixed = None
    /\ \E c \in {"<", ">"} :
          prefixed' = [prefix |-> c, value |-> parse_ratio(<<c>> \o text)]
    /\ UNCHANGED <<text, parsed>>
    /\ UNCHANGED engineVars
    /\ UNCHANGED callVars

ParseNext == ParseRatio \/ ParsePrefixed

SpecParse == ParseInit /\ [][ParseNext]_vars

\* ---------------------------------------------------------- engine actions
\* time passes
Tick ==
    /\ \E d \in TickSteps :
          /\ now + d <= MaxTime
          /\ now' = now + d
    /\ result' = None
    /\ UNCHANGED <<market_history, known_currencies, recorded, records, snapshot>>
    /\ UNCHANGED walk
    /\ UNCHANGED parseVars
    /\ UNCHANGED callVars

\* update_market_history(pair, data) with data holding both trade lists
update_market_history(pair, data) ==
    LET cutoff == now - history_window
        stored == SetItem(market_history, pair, [timestamp |-> now, data |-> data])
    IN  /\ market_history' = CleanOld(stored, cutoff)
        /\ known_currencies' = AddKnown(known_currencies, pair, market_history')

\* TradingBot.scan_market: the snapshot read from the screen is recorded
\* under (i_want, i_have) and handed to the caller
ScanMarket ==
    /\ records < MaxRecords
    /\ \E md \in Snapshots :
          /\ update_market_history(<<md.i_want, md.i_have>>, md)
          /\ recorded' = recorded \cup {<<md.i_want, md.i_have>>}
          /\ snapshot' = md
    /\ records' = records + 1
    /\ result' = None
    /\ UNCHANGED <<now, walk>>
    /\ UNCHANGED parseVars
    /\ UNCHANGED callVars

\* analyze_market(md); the loop over the set known_currencies may run in
\* any order
AnalyzeMarket(md) ==
    /\ result' \in analyze_market(market_history, known_currencies,
                                  IterationOrders(known_currencies), md)
    /\ UNCHANGED <<now, market_history, known_currencies, recorded, records>>
    /\ UNCHANGED walk
    /\ UNCHANGED parseVars
    /\ UNCHANGED callVars

\* TradingBot.evaluate_opportunity, execute_trade and scan_market_pairs
\* analyse the snapshot scan_market returned
AnalyzeScanned ==
    /\ records > 0
    /\ AnalyzeMarket(snapshot)
    /\ UNCHANGED snapshot

\* main.analyze_market: a new TradingStrategies analyses the latest snapshot,
\* once in the run of the program
AnalyzeLatest ==
    /\ records = 0
    /\ snapshot = None
    /\ \E md \in LatestSnapshots :
          /\ AnalyzeMarket(md)
          /\ snapshot' = md

Init ==
    /\ text = <<>>
    /\ parsed = None
    /\ prefixed = None
    /\ EngineInit

Next == Tick \/ ScanMarket \/ AnalyzeScanned \/ AnalyzeLatest

Spec == Init /\ [][Next]_vars

\* ------------------------------ SpecRecord: update_market_history alone
\* the dicts update_market_history is called with: a book with both trade
\* lists, or with one or both of them missing as in the test mode
RecordData ==
    UNION {{[market_ratio |-> T(b[1]), available_trades |-> b[2], competing_trades |-> b[3]],
            [market_ratio |-> T(b[1]), available_trades |-> b[2]],
            [market_ratio |-> T(b[1]), competing_trades |-> b[3]],
            [market_ratio |-> T(b[1])]} :
           b \in {<<"3.5:1", <<Trade("3:1", 1500)>>, <<Trade("3.5:1", 50)>>>>,
                  <<"x", <<>>, <<>>>>}}

\* mutant of convert_trades: a missing list is left missing
convert_trades_default(data) == [k |-> "return", value |-> data]

\* lines 119-128: data.get(field, []) is a list also when the field is
\* missing, and data[field] then raises KeyError
convert_trades(data) ==
    IF "available_trades" \notin DOMAIN data THEN Raise("KeyError")
    ELSE IF "competing_trades" \notin DOMAIN data THEN Raise("KeyError")
    ELSE [k |-> "return", value |-> data]

\* update_market_history(pair, data) called on its own; an exception of the
\* conversion leaves the method before anything is stored
UpdateMarketHistory ==
    /\ records < MaxRecords
    /\ \E pair \in Pairs, data \in RecordData :
          IF convert_trades(data).k = "raise"
          THEN /\ attempt' = [k |-> "call", pair |-> pair, data |-> data,
                              outcome |-> convert_trades(data),
                              last |-> IF attempt = None THEN None ELSE attempt.last]
               /\ UNCHANGED <<market_history, known_currencies, recorded, records>>
          ELSE /\ update_market_history(pair, convert_trades(data).value)
               /\ recorded' = recorded \cup {pair}
               /\ records' = records + 1
               /\ attempt' = [k |-> "call", pair |-> pair, data |-> data,
                              outcome |-> None,
                              last |-> [k |-> "record", pair |-> pair, data |-> data]]
    /\ UNCHANGED <<now, snapshot, result, walk>>
    /\ UNCHANGED <<again, measured, picked, worth, pc, pending,
                   clock, last_trade_time, traded>>
    /\ UNCHANGED parseVars

RecordNext == Tick \/ UpdateMarketHistory

SpecRecord == Init /\ [][RecordNext]_vars

\* ------------- SpecShared: two scanners on one TradingStrategies object
\* update_market_history runs statement by statement and nothing keeps the
\* analysis of the other scanner from running between two statements

\* the snapshots the two scanners read from the screen
SharedSnapshots ==
    {MarketData(p, "3.5:1", <<Trade("3:1", 1500), Trade("3.5:1", 50)>>,
                <<Trade("3.5:1", 50)>>) : p \in Pairs}

\* lines 117-130: the time of the call is read, then the entry is stored
RecordInsert ==
    /\ pc = "idle"
    /\ records < MaxRecords
    /\ \E md \in SharedSnapshots :
          /\ pending' = [k |-> "call", pair |-> <<md.i_want, md.i_have>>,
                         data |-> md, now |-> now]
          /\ market_history' = SetItem(market_history, <<md.i_want, md.i_have>>,
                                       [timestamp |-> now, data |-> md])
    /\ pc' = "inserted"
    /\ UNCHANGED <<now, known_currencies, recorded, records, snapshot, result, walk>>
    /\ UNCHANGED <<again, measured, picked, worth, attempt,
                   clock, last_trade_time, traded>>
    /\ UNCHANGED parseVars

\* lines 133-140: entries not newer than the cutoff are dropped
RecordEvict ==
    /\ pc = "inserted"
    /\ market_history' = CleanOld(market_history, pending.now - history_window)
    /\ pc' = "evicted"
    /\ UNCHANGED <<now, known_currencies, recorded, records, snapshot, result, walk>>
    /\ UNCHANGED <<again, measured, picked, worth, attempt, pending,
                   clock, last_trade_time, traded>>
    /\ UNCHANGED parseVars

\* line 143: self.known_currencies.add(pair[0])
RecordAddFirst ==
    /\ pc = "evicted"
    /\ known_currencies' = known_currencies \cup {pending.pair[1]}
    /\ pc' = "added"
    /\ UNCHANGED <<now, market_history, recorded, records, snapshot, result, walk>>
    /\ UNCHANGED <<again, measured, picked, worth, attempt, pending,
                   clock, last_trade_time, traded>>
    /\ UNCHANGED parseVars

\* line 144: self.known_currencies.add(pair[1]); scan_market then returns
\* the snapshot to its caller
RecordAddSecond ==
    /\ pc = "added"
    /\ known_currencies' = known_currencies \cup {pending.pair[2]}
    /\ recorded' = recorded \cup {pending.pair}
    /\ records' = records + 1
    /\ snapshot' = pending.data
    /\ pending' = None
    /\ pc' = "idle"
    /\ UNCHANGED <<now, market_history, result, walk>>
    /\ UNCHANGED <<again, measured, picked, worth, attempt,
                   clock, last_trade_time, traded>>
    /\ UNCHANGED parseVars

\* the other scanner analyses the snapshot of its last scan, wherever the
\* recording scanner stands
SharedAnalyze ==
    /\ snapshot # None
    /\ AnalyzeMarket(snapshot)
    /\ UNCHANGED snapshot

SharedNext ==
    \/ Tick
    \/ RecordInsert
    \/ RecordEvict
    \/ RecordAddFirst
    \/ RecordAddSecond
    \/ SharedAnalyze

SpecShared == Init /\ [][SharedNext]_vars

\* ------------------------------------------------------------- TradingBot
min_liquidity == 100
min_confidence == Fin(8, 10)

\* mutant of total_volume: the stock of the first available quote only
first_volume(market_data) ==
    IF market_data.available_trades = <<>> THEN 0
    ELSE market_data.available_trades[1].stock

\* sum(trade.stock for trade in market_data.available_trades)
total_volume(market_data) ==
    LET Sum[i \in 0..Len(market_data.available_trades)] ==
            IF i = 0 THEN 0 ELSE Sum[i - 1] + market_data.available_trades[i].stock
    IN  Sum[Len(market_data.available_trades)]

\* the three loops of evaluate_opportunity: some confidence >= min_confidence
has_good_opportunity(opportunities) ==
    \/ \E i \in 1..Len(opportunities.basic) :
          FloatLe(min_confidence, opportunities.basic[i][2].confidence)
    \/ \E i \in 1..Len(opportunities.triangle) :
          FloatLe(min_confidence, opportunities.triangle[i].confidence)
    \/ \E i \in 1..Len(opportunities.market_making) :
          FloatLe(min_confidence, opportunities.market_making[i].confidence)

\* the opportunities in the order the three loops of execute_trade visit
\* them, each as the tuple the loop would store in best_opp
Candidates(opportunities) ==
    [i \in 1..Len(opportunities.basic) |->
        <<"basic", opportunities.basic[i][1], opportunities.basic[i][2]>>]
    \o [i \in 1..Len(opportunities.triangle) |->
        <<"triangle", "Triangle Arbitrage", opportunities.triangle[i]>>]
    \o [i \in 1..Len(opportunities.market_making) |->
        <<"market_making", "Market Making", opportunities.market_making[i]>>]

\* mutant of Better: an equal confidence replaces the best so far as well
BetterOrEqual(confidence, best_confidence) == FloatLe(best_confidence, confidence)

\* if opp.confidence > best_confidence
Better(confidence, best_confidence) == FloatGt(confidence, best_confidence)

\* best_opp after the three loops, starting from None and best_confidence 0
RECURSIVE best_opp_from(_, _, _, _)
best_opp_from(candidates, i, best_opp, best_confidence) ==
    IF i > Len(candidates) THEN best_opp
    ELSE IF Better(candidates[i][3].confidence, best_confidence)
         THEN best_opp_from(candidates, i + 1, candidates[i], candidates[i][3].confidence)
         ELSE best_opp_from(candidates, i + 1, best_opp, best_confidence)

best_opp_of(opportunities) == best_opp_from(Candidates(opportunities), 1, None, Zero)

\* ------------------------------- SpecAnalyze: one analysis of a given state
\* The strategies are functions of market_history, known_currencies and the
\* snapshot handed to analyze_market.  SpecAnalyze starts from states of a
\* TradingStrategies instance that scans can build and analyses each once.

\* order books of one pair, chosen for find_spread_opportunities and
\* find_market_making_opportunities
AnalyzeBooks ==
    { <<"1:1", <<>>, <<Trade("3:1", 50)>>>>,
      <<"1:1", <<Trade("3:1", 50)>>, <<>>>>,
      <<"1:1", <<Trade("100:1", 50)>>, <<Trade("110:1", 50)>>>>,
      <<"1:1", <<Trade("100:1", 1500), Trade("105:1", 50)>>,
               <<Trade("105:1", 50), Trade("1:0", 50)>>>>,
      <<"1:1", <<Trade("3:1", 1500), Trade("3.5:1", 50)>>, <<Trade("3.5:1", 50)>>>>,
      <<"1:1", <<Trade("3.5:1", 1500), Trade("3:1", 50)>>, <<Trade("3.5:1", 50)>>>>,
      <<"1:1", <<Trade("3:1", 1500)>>, <<Trade("3.5:1", 50)>>>>,
      <<"1:1", <<Trade("3:1", 1500)>>, <<Trade("3.5:1", 50), Trade("110:1", 50)>>>>,
      <<"1:1", <<Trade("3:1", 500)>>, <<Trade("3:1", 50)>>>>,
      <<"1:1", <<Trade("3:1", 50), Trade("1:3", 50)>>, <<Trade("3:1", 50)>>>>,
      <<"1:1", <<Trade("3:1", 1500), Trade("1:0", 50)>>, <<Trade("3.5:1", 50)>>>>,
      <<"1:1", <<Trade("1:0", 50)>>, <<Trade("3:1", 50)>>>>,
      <<"1:1", <<Trade("3:1", 1500)>>, <<Trade("1:0", 50)>>>>,
      <<"1:1", <<Trade("x", 0), Trade("3:1", 50)>>, <<Trade("3.5:1", 50)>>>>,
      <<"1:1", <<Trade("110:1", 30)>>, <<Trade("101:1", 50)>>>>,
      <<"1:1", <<Trade("105:1", 1500)>>, <<Trade("100:1", 50)>>>>,
      <<"1:1", <<Trade("3:1", 1500)>>, <<Trade("N:1", 50)>>>>,
      <<"1:1", <<Trade("N:1", 50)>>, <<Trade("3:1", 50)>>>>,
      <<"1:1", <<Trade("N:1", 50)>>, <<Trade("N:1", 50)>>>> }

\* the pairs of the cycle divine -> exalt -> chaos -> divine and of its reverse
CyclePairs == <<<<"divine", "exalt">>, <<"exalt", "chaos">>, <<"chaos", "divine">>>>
ReversePairs == <<<<"exalt", "divine">>, <<"chaos", "exalt">>, <<"divine", "chaos">>>>

\* the pairs combinations(sorted(tradeables), 2) scans: one direction only
OrderedPairs == <<<<"chaos", "divine">>, <<"chaos", "exalt">>, <<"divine", "exalt">>>>

\* a pair without an entry in market_history
Absent == <<>>

\* order books of one leg of a cycle
LegBooks ==
    { <<"1:1", <<Trade("3:1", 1500)>>, <<Trade("3.5:1", 50)>>>>,
      <<"1:1", <<Trade("1:3", 50), Trade("3:1", 50)>>, <<>>>>,
      <<"1:1", <<Trade("1:1", 50)>>, <<Trade("1:1", 50)>>>>,
      <<"1:1", <<Trade("1:0", 50)>>, <<>>>>,
      <<"1:1", <<>>, <<>>>> }

\* the books of the reverse cycle when it is tracked: rates 3, 1 and 1
ReverseBooks ==
    << <<"1:1", <<Trade("3:1", 50)>>, <<>>>>,
       <<"1:1", <<Trade("1:1", 50)>>, <<>>>>,
       <<"1:1", <<Trade("1:1", 50)>>, <<>>>> >>

\* market_history after update_market_history(pairs[i], books[i]) for every
\* i with a book, in this order and within one history window
HistoryOf(pairs, books) ==
    LET entry(i) == [key |-> pairs[i], timestamp |-> 0,
                     data |-> MarketData(pairs[i], books[i][1], books[i][2], books[i][3])]
        Rec[i \in 0..Len(pairs)] ==
            IF i = 0 THEN <<>>
            ELSE IF books[i] = Absent THEN Rec[i - 1]
            ELSE Append(Rec[i - 1], entry(i))
    IN  Rec[Len(pairs)]

\* the histories of SpecAnalyze: none, one pair, or legs of the two cycles
AnalyzeHistories ==
    {<<>>}
    \cup {HistoryOf(<<CyclePairs[1]>>, <<b>>) : b \in AnalyzeBooks}
    \cup {HistoryOf(CyclePairs, legs) \o HistoryOf(ReversePairs, rev) :
              legs \in [1..3 -> LegBooks \cup {Absent}],
              rev \in {ReverseBooks, <<Absent, Absent, Absent>>}}
    \cup {HistoryOf(OrderedPairs, legs) : legs \in [1..3 -> LegBooks \cup {Absent}]}

\* the currencies update_market_history has added for the pairs of h
KnownOf(h) == UNION {{h[i].key[1], h[i].key[2]} : i \in 1..Len(h)}

AnalyzeInit ==
    /\ text = <<>>
    /\ parsed = None
    /\ prefixed = None
    /\ now = 0
    /\ market_history \in AnalyzeHistories
    /\ known_currencies = KnownOf(market_history)
    /\ recorded = {market_history[i].key : i \in 1..Len(market_history)}
    /\ records = Len(market_history)
    /\ snapshot \in IF market_history = <<>>
                    THEN {MarketData(CyclePairs[1], b[1], b[2], b[3]) : b \in AnalyzeBooks}
                    ELSE {market_history[Len(market_history)].data}
    /\ result = None
    /\ walk = None
    /\ CallInit

\* analyze_market(snapshot), the loop over known_currencies running in the
\* order walk'
Analyze ==
    /\ result = None
    /\ measured = None
    /\ worth = None
    /\ \E order \in IterationOrders(known_currencies) :
          /\ result' \in analyze_market(market_history, known_currencies,
                                        {order}, snapshot)
          /\ walk' = order
    /\ UNCHANGED <<now, market_history, known_currencies, recorded, records, snapshot>>
    /\ UNCHANGED parseVars
    /\ UNCHANGED callVars

\* mutant of IterationAgain: the second walk runs backwards
IterationReversed(order) == [i \in 1..Len(order) |-> order[Len(order) + 1 - i]]

\* a set that has not been modified is walked in the same order again
IterationAgain(order) == order

\* a second analyze_market(snapshot) right after the first
AnalyzeAgain ==
    /\ result # None
    /\ again = None
    /\ picked = None
    /\ worth = None
    /\ again' \in analyze_market(market_history, known_currencies,
                                  {IterationAgain(walk)}, snapshot)
    /\ UNCHANGED <<now, market_history, known_currencies, recorded, records,
                   snapshot, result, walk>>
    /\ UNCHANGED <<measured, picked, worth, attempt, pc, pending,
                   clock, last_trade_time, traded>>
    /\ UNCHANGED parseVars

\* calculate_volatility(pair) for a pair of known or unknown currencies
CalculateVolatility ==
    /\ result = None
    /\ measured = None
    /\ worth = None
    /\ \E pair \in Currencies \X Currencies :
          measured' = [pair |-> pair,
                       value |-> calculate_volatility(market_history, pair)]
    /\ UNCHANGED <<now, market_history, known_currencies, recorded, records,
                   snapshot, result, walk>>
    /\ UNCHANGED <<again, picked, worth, attempt, pc, pending,
                   clock, last_trade_time, traded>>
    /\ UNCHANGED parseVars

\* TradingBot.execute_trade(snapshot) down to its choice of best_opp, the
\* cooldown being over; an exception of the analysis is caught by the
\* except clause with no choice made
FindBestOpportunity ==
    /\ result = None
    /\ measured = None
    /\ worth = None
    /\ \E order \in IterationOrders(known_currencies) :
          /\ result' \in analyze_market(market_history, known_currencies,
                                         {order}, snapshot)
          /\ walk' = order
    /\ picked' = IF result'.k = "raise" THEN result'
                  ELSE [k |-> "best", best_opp |-> best_opp_of(result'.items)]
    /\ UNCHANGED <<now, market_history, known_currencies, recorded, records, snapshot>>
    /\ UNCHANGED <<again, measured, worth, attempt, pc, pending,
                   clock, last_trade_time, traded>>
    /\ UNCHANGED parseVars

\* TradingBot.evaluate_opportunity(snapshot)
EvaluateOpportunity ==
    /\ result = None
    /\ measured = None
    /\ worth = None
    /\ IF total_volume(snapshot) < min_liquidity
       THEN /\ worth' = [k |-> "return", value |-> FALSE]
            /\ UNCHANGED <<result, walk>>
       ELSE /\ \E order \in IterationOrders(known_currencies) :
                  /\ result' \in analyze_market(market_history, known_currencies,
                                                 {order}, snapshot)
                  /\ walk' = order
            /\ worth' = IF result'.k = "raise" THEN result'
                         ELSE [k |-> "return",
                               value |-> has_good_opportunity(result'.items)]
    /\ UNCHANGED <<now, market_history, known_currencies, recorded, records, snapshot>>
    /\ UNCHANGED <<again, measured, picked, attempt, pc, pending,
                   clock, last_trade_time, traded>>
    /\ UNCHANGED parseVars

AnalyzeNext ==
    Analyze \/ AnalyzeAgain \/ CalculateVolatility \/ FindBestOpportunity
        \/ EvaluateOpportunity

SpecAnalyze == AnalyzeInit /\ [][AnalyzeNext]_vars

\* ------------------------------------------------------- claims on SpecParse
\* the two sides of a text with exactly one ':', without the characters that
\* are neither a digit nor a decimal point
Side(t, left) ==
    LET i == CHOOSE j \in 1..Len(t) : t[j] = ":"
        raw == IF left THEN SubSeq(t, 1, i - 1) ELSE SubSeq(t, i + 1, Len(t))
    IN  SelectSeq(raw, LAMBDA c : c \notin {"<", ">", " ", "x"})

\* a decimal numeral of ordinary length: digits with at most one point
IsDecimal(s) ==
    /\ Count(s, ".") <= 1
    /\ \E i \in 1..Len(s) : s[i] \in Digits
    /\ \A i \in 1..Len(s) : s[i] \in Digits \cup {"."}

HasLongRun(s) == \E i \in 1..Len(s) : s[i] = "N"

\* C1 (as claimed): parse_ratio is total: for every text it returns a finite
\* number >= 0 and never raises.
C1_ParseTotalFinite ==
    parsed # None => (parsed.k = "fin" /\ parsed.n >= 0)

\* C2: for a text numerator:denominator parse_ratio strips every character
\* that is not a digit or '.' from both sides and returns their quotient; it
\* returns 0.0 when a side is empty after stripping, is no numeral, or the
\* denominator is zero.  (Sides holding a 400-digit run are C1's subject.)
C2_RatioForm ==
    (parsed # None /\ Count(text, ":") = 1) =>
        LET num == Side(text, TRUE)
            den == Side(text, FALSE)
        IN  IF num = <<>> \/ den = <<>> THEN parsed = Zero
            ELSE IF HasLongRun(num) \/ HasLongRun(den) THEN TRUE
            ELSE IF ~IsDecimal(num) \/ ~IsDecimal(den) THEN parsed = Zero
            ELSE IF float(den).n = 0 THEN parsed = Zero
            ELSE /\ parsed.k = "fin"
                 /\ parsed.n * (float(den).n * float(num).d)
                      = parsed.d * (float(num).n * float(den).d)

\* "x3:1" parses to 3.0
C2_Witness ==
    /\ text = <<"x", "3", ":", "1">>
    /\ parsed = Fin(3, 1)

NoOuterSpace(s) == s = <<>> \/ (s[1] # " " /\ s[Len(s)] # " ")

\* C3 (as claimed): for every text s, parse_ratio of '<' + s or '>' + s
\* equals parse_ratio(s).
C3_PrefixDiscarded ==
    prefixed # None => prefixed.value = parsed

\* C3 (amended): the same, for every text s that contains ':' or has no
\* leading or trailing whitespace.
C3_PrefixDiscardedTrimmed ==
    (prefixed # None /\ (Count(text, ":") > 0 \/ NoOuterSpace(text))) =>
        prefixed.value = parsed

\* ">3:1" parses like "3:1", to 3.0
C3_Witness ==
    /\ text = <<"3", ":", "1">>
    /\ prefixed = [prefix |-> ">", value |-> Fin(3, 1)]
    /\ parsed = Fin(3, 1)

\* ------------------------------------------------------------ claims on Spec
PairOf(md) == <<md.i_want, md.i_have>>
Entries(h, pair) == SelectSeq(h, LAMBDA e : e.key = pair)
IsList(x) == DOMAIN x = 1..Len(x)

\* C4: for every snapshot and every reachable history analyze_market returns
\* a result holding exactly the lists basic, triangle and market_making and
\* never raises.
C4_AnalyzeWellFormed ==
    result # None =>
        /\ result.k = "dict"
        /\ DOMAIN result.items = {"basic", "triangle", "market_making"}
        /\ IsList(result.items.basic)
        /\ IsList(result.items.triangle)
        /\ IsList(result.items.market_making)

\* an analysis has returned while three currencies are known, a tracked pair
\* has an empty available list and the analysed snapshot has no quotes
C4_Witness ==
    /\ result # None
    /\ result.k = "dict"
    /\ Cardinality(known_currencies) = 3
    /\ \E i \in 1..Len(market_history) :
          market_history[i].data.available_trades = <<>>
    /\ \E i \in 1..Len(market_history) :
          market_history[i].data.available_trades # <<>>
    /\ snapshot.available_trades = <<>>

\* C5 (as claimed): every call to analyze records the snapshot under its
\* (want, have) pair and adds both currencies to the known currencies.
C5_AnalyzeRecords ==
    result # None =>
        /\ HasKey(market_history, PairOf(snapshot))
        /\ Item(market_history, PairOf(snapshot)).data = snapshot
        /\ {snapshot.i_want, snapshot.i_have} \subseteq known_currencies

\* C6 (as claimed): at the moment analyze reads the history no entry older
\* than the window, relative to the read time, is visible.
C6_NoStaleRead ==
    result # None =>
        \A i \in 1..Len(market_history) :
            market_history[i].timestamp >= now - history_window

\* C7 (as claimed): a record appends; an entry of the same pair that is still
\* inside the window is kept next to the new one.
C7_RecordAppends ==
    [][records' = records + 1 =>
          LET p == PairOf(snapshot')
              inside == SelectSeq(Entries(market_history, p),
                                  LAMBDA e : e.timestamp > now - history_window)
          IN  Len(Entries(market_history', p)) = Len(inside) + 1]_vars

\* C7 (amended): a record replaces; after any number of records of one pair
\* the history holds exactly one entry of the pair, the snapshot recorded
\* last with the time of that record.
C7_RecordReplaces ==
    [][records' = records + 1 =>
          LET p == PairOf(snapshot')
          IN  Entries(market_history', p)
                = <<[key |-> p, timestamp |-> now, data |-> snapshot']>>]_vars

\* one pair has been recorded twice, 15 minutes apart at most, and is held once
C7_Witness ==
    /\ records = 2
    /\ Cardinality(recorded) = 1
    /\ now = 15
    /\ Len(market_history) = 1
    /\ market_history[1].timestamp = 15

Survives(h, e) == \E i \in 1..Len(h) : h[i] = e

\* C8 (as claimed): a record at time now keeps an entry of another pair if
\* and only if its timestamp is not older than now minus the window; an
\* entry exactly one window old is kept.
C8_EvictOlderThanWindow ==
    [][records' = records + 1 =>
          \A i \in 1..Len(market_history) :
              market_history[i].key # PairOf(snapshot') =>
                  (Survives(market_history', market_history[i])
                     <=> market_history[i].timestamp >= now - history_window)]_vars

\* C8 (amended): a record at time now keeps an entry of another pair if and
\* only if its timestamp is later than now minus the window; an entry
\* exactly one window old is evicted.
C8_EvictNotNewerThanWindow ==
    [][records' = records + 1 =>
          \A i \in 1..Len(market_history) :
              market_history[i].key # PairOf(snapshot') =>
                  (Survives(market_history', market_history[i])
                     <=> market_history[i].timestamp > now - history_window)]_vars

\* two pairs were recorded, the second at minute 30; the first, recorded at
\* minute 0 and so exactly one window old, is gone
C8_Witness ==
    /\ records = 2
    /\ Cardinality(recorded) = 2
    /\ now = 30
    /\ Len(market_history) = 1
    /\ market_history[1].timestamp = 30
    /\ result = None

\* C9: the known currencies are the union of both elements of every pair
\* ever recorded, also when every entry naming a currency has been evicted.
C9_KnownIsUnionOfRecorded ==
    known_currencies = UNION {{p[1], p[2]} : p \in recorded}

\* a currency is known although no tracked pair names it any more
C9_Witness ==
    \E c \in known_currencies :
        \A i \in 1..Len(market_history) :
            c \notin {market_history[i].key[1], market_history[i].key[2]}

\* the 'Integer Ratio' entries of a result
IntegerEntries(r) == SelectSeq(r.items.basic, LAMBDA e : e[1] = "Integer Ratio")

\* floor of a non-negative rational
Floor(x) == x.n \div x.d

\* the profit the claim computes from the market ratio r, None when r is
\* not positive or neither branch exceeds the threshold
ClaimedProfit(r) ==
    IF ~IsFin(r) \/ r.n <= 0 THEN None
    ELSE LET f == Floor(r)
             ceilProfit == Fin((f + 1) * r.d - r.n, r.n)
             floorProfit == IF f = 0 THEN Zero ELSE Fin(r.n - f * r.d, f * r.d)
             best == IF FloatLt(floorProfit, ceilProfit) THEN ceilProfit ELSE floorProfit
         IN  IF FloatGt(best, min_profit_threshold) THEN best ELSE None

\* C10 (as claimed): the integer-ratio strategy emits one opportunity for the
\* larger of floorProfit and ceilProfit of the market ratio when it exceeds
\* 0.015, with confidence min(profit * 2, 1.0), and nothing otherwise.
C10_FloorCeilOfMarketRatio ==
    (result # None /\ result.k = "dict") =>
        LET profit == ClaimedProfit(parse_ratio(snapshot.market_ratio))
            found == IntegerEntries(result)
        IN  IF profit = None THEN found = <<>>
            ELSE /\ Len(found) = 1
                 /\ found[1][2].potential_profit = profit
                 /\ found[1][2].confidence
                      = (IF FloatLt(FloatMul(profit, Fin(2, 1)), Fin(1, 1))
                         THEN FloatMul(profit, Fin(2, 1)) ELSE Fin(1, 1))

\* the rate of a quote is positive and it or its inverse is a whole number
IntegerQuote(q) ==
    LET r == parse_ratio(q.ratio)
    IN  \/ r.k = "inf"
        \/ r.k = "fin" /\ r.n > 0 /\ (r.d = 1 \/ r.n = 1)

\* C10 (amended): the integer-ratio strategy takes the first available quote
\* whose rate r is positive with r or 1/r a whole number and emits one Basic
\* opportunity carrying that quote's ratio text and the market ratio text,
\* profit 0.05, volume min(100, stock) and confidence 0.8; it emits nothing
\* when no available quote qualifies, whatever the market ratio.
C10_FirstIntegerQuote ==
    (result # None /\ result.k = "dict") =>
        LET quotes == snapshot.available_trades
            hits == {i \in 1..Len(quotes) : IntegerQuote(quotes[i])}
            found == IntegerEntries(result)
        IN  IF hits = {} THEN found = <<>>
            ELSE LET q == quotes[CHOOSE i \in hits : \A j \in hits : i <= j]
                 IN  /\ Len(found) = 1
                     /\ result.items.basic[1] = found[1]
                     /\ found[1][2].buy_ratio = q.ratio
                     /\ found[1][2].sell_ratio = snapshot.market_ratio
                     /\ found[1][2].buy_currency = snapshot.i_want
                     /\ found[1][2].sell_currency = snapshot.i_have
                     /\ found[1][2].potential_profit = Fin(1, 20)
                     /\ found[1][2].trade_volume = (IF q.stock < 100 THEN q.stock ELSE 100)
                     /\ found[1][2].confidence = Fin(4, 5)

\* market ratio "3.5:1" with quotes "3:1" and "1:3": the opportunity is built
\* from the first quote and has confidence 0.8, not min(0.333, 1.0)
C10_Witness ==
    /\ result # None
    /\ snapshot.market_ratio = T("3.5:1")
    /\ Len(snapshot.available_trades) = 2
    /\ snapshot.available_trades[1].ratio = T("3:1")
    /\ snapshot.available_trades[2].ratio = T("1:3")
    /\ Len(IntegerEntries(result)) = 1
    /\ IntegerEntries(result)[1][2].buy_ratio = T("3:1")
    /\ IntegerEntries(result)[1][2].confidence = Fin(4, 5)

\* ----------------------------------------------------- claims on SpecAnalyze
SpreadEntries(r) == SelectSeq(r.items.basic, LAMBDA e : e[1] = "Spread")

\* a rate above zero
Positive(x) == x.k = "inf" \/ (x.k = "fin" /\ x.n > 0)

\* the smaller and the larger of two finite rates
Lower(a, c) == IF a.n * c.d <= c.n * a.d THEN a ELSE c
Higher(a, c) == IF a.n * c.d <= c.n * a.d THEN c ELSE a

\* |a - c| / min(a, c) for positive rates a and c
SpreadOf(a, c) ==
    IF a.k = "fin" /\ c.k = "fin"
    THEN Fin(Higher(a, c).n * Lower(a, c).d - Lower(a, c).n * Higher(a, c).d,
             Higher(a, c).d * Lower(a, c).n)
    ELSE IF a.k = "inf" /\ c.k = "inf" THEN NaN
    ELSE PosInf

\* x > n/d for a float x and naturals n, d
Exceeds(x, n, d) == x.k = "inf" \/ (x.k = "fin" /\ x.n * d > n * x.d)

\* both lists are non-empty, both first quotes parse to a positive rate and
\* their spread exceeds 0.05
SpreadCondition(md) ==
    /\ md.available_trades # <<>>
    /\ md.competing_trades # <<>>
    /\ Positive(parse_ratio(md.available_trades[1].ratio))
    /\ Positive(parse_ratio(md.competing_trades[1].ratio))
    /\ Exceeds(SpreadOf(parse_ratio(md.available_trades[1].ratio),
                        parse_ratio(md.competing_trades[1].ratio)), 5, 100)

\* C11: the spread strategy emits a Basic opportunity if and only if both
\* quote lists are non-empty, the first quote of each parses to a positive
\* rate and |a - c| / min(a, c) > 0.05 for these two rates; the quotes after
\* the first play no part.
C11_SpreadEmitsIff ==
    (result # None /\ result.k = "dict") =>
        /\ Len(SpreadEntries(result)) <= 1
        /\ Len(SpreadEntries(result)) = 1 <=> SpreadCondition(snapshot)

\* emitted and not emitted on books with a second quote: 3:1 against 3.5:1
\* with a > c reversed, and 100:1 against 105:1 on the threshold
C11_Witness ==
    /\ result # None
    /\ Len(snapshot.available_trades) = 2
    /\ snapshot.available_trades[1].ratio = T("3:1")
    /\ snapshot.competing_trades[1].ratio = T("3.5:1")
    /\ Len(SpreadEntries(result)) = 1

\* min(0.9, spread * 10)
SpreadConfidence(spread) ==
    IF spread.k = "fin" /\ spread.n * 100 < 9 * spread.d
    THEN Fin(spread.n * 10, spread.d)
    ELSE Fin(9, 10)

\* C12: an opportunity of the spread strategy has profit equal to the spread,
\* confidence min(0.9, spread * 10), volume min(100, stock of the first
\* available quote) and the ratio texts of the two first quotes unchanged.
C12_SpreadFields ==
    (result # None /\ result.k = "dict") =>
        \A i \in 1..Len(SpreadEntries(result)) :
            LET opp == SpreadEntries(result)[i][2]
                first_available == snapshot.available_trades[1]
                first_competing == snapshot.competing_trades[1]
                spread == SpreadOf(parse_ratio(first_available.ratio),
                                   parse_ratio(first_competing.ratio))
            IN  /\ opp.potential_profit = spread
                /\ opp.confidence = SpreadConfidence(spread)
                /\ opp.trade_volume = (IF first_available.stock < 100
                                       THEN first_available.stock ELSE 100)
                /\ opp.buy_ratio = first_available.ratio
                /\ opp.sell_ratio = first_competing.ratio

\* 110:1 with stock 30 against 101:1: spread 9/101, confidence 90/101 below
\* the cap, volume 30 below the cap
C12_Witness ==
    /\ result # None
    /\ result.k = "dict"
    /\ Len(SpreadEntries(result)) = 1
    /\ SpreadEntries(result)[1][2].potential_profit = Fin(9, 101)
    /\ SpreadEntries(result)[1][2].confidence = Fin(90, 101)
    /\ SpreadEntries(result)[1][2].trade_volume = 30
    /\ SpreadEntries(result)[1][2].buy_ratio = T("110:1")

\* the triple (c1, c2, c3) of a Triangle opportunity
TripleOf(opp) == <<opp.step1[1], opp.step2[1], opp.step3[1]>>

\* the three pairs a triple trades through
LegPairs(t) == << <<t[1], t[2]>>, <<t[2], t[3]>>, <<t[3], t[1]>> >>

\* the first available quote of the most recent history entry of a pair,
\* None when the pair has no entry or the entry has no available quote
LegQuote(h, pair) ==
    IF Entries(h, pair) = <<>> THEN None
    ELSE IF Entries(h, pair)[Len(Entries(h, pair))].data.available_trades = <<>> THEN None
    ELSE Entries(h, pair)[Len(Entries(h, pair))].data.available_trades[1]

\* the rate of that quote, zero when there is none
LegRate(h, pair) ==
    IF LegQuote(h, pair) = None THEN Zero ELSE parse_ratio(LegQuote(h, pair).ratio)

\* r1 * r2 * r3 - 1 for three positive rates
ProductMinusOne(r1, r2, r3) ==
    IF r1.k = "fin" /\ r2.k = "fin" /\ r3.k = "fin"
    THEN Fin(r1.n * r2.n * r3.n - r1.d * r2.d * r3.d, r1.d * r2.d * r3.d)
    ELSE PosInf

\* the profit of the triple t on the history h
TripleProfit(h, t) ==
    ProductMinusOne(LegRate(h, LegPairs(t)[1]), LegRate(h, LegPairs(t)[2]),
                    LegRate(h, LegPairs(t)[3]))

\* the condition of the claim for the ordered triple t
TriangleCondition(h, known, t) ==
    /\ Cardinality(known) >= 3
    /\ t[1] # t[2] /\ t[2] # t[3] /\ t[3] # t[1]
    /\ {t[1], t[2], t[3]} \subseteq known
    /\ \A i \in 1..3 : Positive(LegRate(h, LegPairs(t)[i]))
    /\ Exceeds(TripleProfit(h, t), 15, 1000)

\* C13: the triangle strategy emits an opportunity for the ordered triple
\* (c1, c2, c3) if and only if at least 3 currencies are known, the three are
\* distinct and known, each of (c1,c2), (c2,c3), (c3,c1) has a most recent
\* history entry whose first available quote parses to a positive rate, and
\* the product of the three rates minus 1 exceeds 0.015.
C13_TriangleEmitsIff ==
    (result # None /\ result.k = "dict") =>
        \A t \in Currencies \X Currencies \X Currencies :
            (\E i \in 1..Len(result.items.triangle) :
                 TripleOf(result.items.triangle[i]) = t)
            <=> TriangleCondition(market_history, known_currencies, t)

\* both cycles are tracked with positive rates: the rotations of the reverse
\* cycle (product 3) are emitted, those of the forward cycle (product 1) not
C13_Witness ==
    /\ result # None
    /\ result.k = "dict"
    /\ Len(market_history) = 6
    /\ \A i \in 1..3 : market_history[i].data.available_trades # <<>>
    /\ \A i \in 1..3 : market_history[i].data.available_trades[1].ratio = T("1:1")
    /\ Len(result.items.triangle) = 3
    /\ \E i \in 1..3 : TripleOf(result.items.triangle[i]) = <<"exalt", "divine", "chaos">>

\* C14 (as claimed): when the history holds exactly the three pairs (A,B),
\* (B,C), (C,A) of one cycle and the product of their rates minus 1 exceeds
\* the threshold, analyze emits exactly one Triangle opportunity, not one per
\* rotation of the cycle.
C14_OneTrianglePerCycle ==
    (/\ result # None
     /\ result.k = "dict"
     /\ Len(market_history) = 3
     /\ \E a, b, c \in Currencies :
           /\ Keys(market_history) = {<<a, b>>, <<b, c>>, <<c, a>>}
           /\ TriangleCondition(market_history, known_currencies, <<a, b, c>>))
    => Len(result.items.triangle) = 1

\* min(profit * 3, 1.0)
TriangleConfidence(profit) ==
    IF profit.k = "fin" /\ profit.n * 3 < profit.d THEN Fin(profit.n * 3, profit.d)
    ELSE Fin(1, 1)

\* the smaller of two ints
Least(a, b) == IF a <= b THEN a ELSE b

\* C15: a Triangle opportunity has total profit = product of its three leg
\* rates minus 1, volume = min(volumes of the three legs, 1000) and
\* confidence = min(profit * 3, 1.0); the volume exceeds neither 1000 nor the
\* stock of any leg.
C15_TriangleFields ==
    (result # None /\ result.k = "dict") =>
        \A i \in 1..Len(result.items.triangle) :
            LET opp == result.items.triangle[i]
                legs == LegPairs(TripleOf(opp))
                stock(j) == LegQuote(market_history, legs[j]).stock
            IN  /\ opp.step1[3] = FormatRatio(LegRate(market_history, legs[1]))
                /\ opp.step2[3] = FormatRatio(LegRate(market_history, legs[2]))
                /\ opp.step3[3] = FormatRatio(LegRate(market_history, legs[3]))
                /\ opp.total_profit = TripleProfit(market_history, TripleOf(opp))
                /\ opp.min_volume =
                       Least(Least(stock(1), stock(2)), Least(stock(3), 1000))
                /\ opp.min_volume <= 1000
                /\ \A j \in 1..3 : opp.min_volume <= stock(j)
                /\ opp.confidence = TriangleConfidence(opp.total_profit)

\* legs 3:1 with stock 1500 each: profit 26, confidence capped at 1 and
\* volume capped at 1000; and legs 1:3, 3:1, 3:1 whose product is 3
C15_Witness ==
    /\ result # None
    /\ result.k = "dict"
    /\ \E i \in 1..Len(result.items.triangle) :
          /\ result.items.triangle[i].total_profit = Fin(26, 1)
          /\ result.items.triangle[i].min_volume = 1000
          /\ result.items.triangle[i].confidence = Fin(1, 1)

\* the place of the triple t in the enumeration of the nested loops that
\* walk the known currencies in the order w
EnumIndex(w, t) ==
    LET pos(c) == CHOOSE i \in 1..Len(w) : w[i] = c
    IN  (pos(t[1]) * Len(w) + pos(t[2])) * Len(w) + pos(t[3])

\* C16: the triangle list is ordered by non-increasing total profit, and two
\* opportunities with equal profit appear in the order in which their
\* triples were enumerated.
C16_TriangleSortedStable ==
    (result # None /\ result.k = "dict") =>
        \A i, j \in 1..Len(result.items.triangle) :
            i < j =>
                LET x == result.items.triangle[i]
                    y == result.items.triangle[j]
                IN  /\ ~FloatLt(x.total_profit, y.total_profit)
                    /\ x.total_profit = y.total_profit =>
                           EnumIndex(walk, TripleOf(x)) < EnumIndex(walk, TripleOf(y))

\* six opportunities, three of profit 26 and three of profit 2, where a
\* triple of the lower profit was enumerated before one of the higher
C16_Witness ==
    /\ result # None
    /\ result.k = "dict"
    /\ Len(result.items.triangle) = 6
    /\ result.items.triangle[1].total_profit = Fin(26, 1)
    /\ result.items.triangle[2].total_profit = Fin(26, 1)
    /\ result.items.triangle[6].total_profit = Fin(2, 1)
    /\ EnumIndex(walk, TripleOf(result.items.triangle[4]))
           < EnumIndex(walk, TripleOf(result.items.triangle[1]))

\* -------------------------------------------------- claims on market making
\* the parsed rates of a quote list
Rates(trades) == {parse(trades[i].ratio) : i \in 1..Len(trades)}

\* the smallest and the largest of a non-empty set of rates
MinOf(S) == CHOOSE r \in S : \A q \in S : ~FloatLt(q, r)
MaxOf(S) == CHOOSE r \in S : \A q \in S : ~FloatGt(q, r)

MakingBid(md) == MinOf(Rates(md.available_trades))
MakingAsk(md) == MaxOf(Rates(md.competing_trades))

\* (ask - bid) / bid for a positive finite bid and a positive ask
MakingSpread(bid, ask) ==
    IF ask.k = "fin" THEN Fin(ask.n * bid.d - bid.n * ask.d, ask.d * bid.n)
    ELSE PosInf

\* min(volume / 1000, 1.0)
VolumeScore(volume) == IF volume < 1000 THEN Fin(volume, 1000) ELSE Fin(1, 1)

\* max(0, 1 - volatility * 10)
VolatilityScore(volatility) ==
    IF volatility.k = "fin" /\ volatility.d > 10 * volatility.n
    THEN Fin(volatility.d - 10 * volatility.n, volatility.d)
    ELSE Zero

\* min(spread * 5, 1.0)
SpreadScore(spread) ==
    IF spread.k = "fin" /\ 5 * spread.n < spread.d THEN Fin(5 * spread.n, spread.d)
    ELSE Fin(1, 1)

\* the mean of the three scores of the history entry e
MakingConfidence(h, e) ==
    FloatDiv(FloatAdd(FloatAdd(VolumeScore(e.data.available_trades[1].stock),
                               VolatilityScore(calculate_volatility(h, e.key))),
                      SpreadScore(MakingSpread(MakingBid(e.data), MakingAsk(e.data)))),
             Fin(3, 1))

\* the entry e has quotes on both sides and a positive bid and ask
MakingScored(e) ==
    /\ e.data.available_trades # <<>>
    /\ e.data.competing_trades # <<>>
    /\ Positive(MakingBid(e.data))
    /\ Positive(MakingAsk(e.data))

\* the entry e is scored and its confidence exceeds 0.5; an unbounded bid
\* leaves the spread and the confidence undefined (nan)
MakingCondition(h, e) ==
    /\ MakingScored(e)
    /\ MakingBid(e.data).k = "fin"
    /\ Exceeds(MakingConfidence(h, e), 1, 2)

MakingOf(r, pair) == SelectSeq(r.items.market_making, LAMBDA o : o.currency_pair = pair)

\* C17 (as claimed): a pair with fewer than 5 history entries never appears
\* in the market-making output of analyze.
C17_FiveEntries ==
    (result # None /\ result.k = "dict") =>
        \A i \in 1..Len(result.items.market_making) :
            Len(Entries(market_history, result.items.market_making[i].currency_pair)) >= 5

\* C17 (amended): the number of history entries is no condition of the
\* market-making output: every pair in it has exactly one history entry,
\* and every tracked pair whose entry has quotes on both sides, a positive
\* bid and ask and a confidence above 0.5 appears in it.
C17_OneEntrySuffices ==
    (result # None /\ result.k = "dict") =>
        /\ \A i \in 1..Len(result.items.market_making) :
              Len(Entries(market_history, result.items.market_making[i].currency_pair)) = 1
        /\ \A i \in 1..Len(market_history) :
              MakingCondition(market_history, market_history[i])
                  => MakingOf(result, market_history[i].key) # <<>>

\* one scan of a pair, then the analysis lists the pair
C17_Witness ==
    /\ result # None
    /\ result.k = "dict"
    /\ records = 1
    /\ Len(market_history) = 1
    /\ Len(result.items.market_making) = 1
    /\ result.items.market_making[1].currency_pair = market_history[1].key

\* C18 (as claimed): the market-making strategy scores the tracked pairs
\* against the snapshot passed to analyze: when a quote list of the snapshot
\* is empty no pair is emitted, and bid and ask are those of the snapshot.
C18_ScoresAgainstSnapshot ==
    (result # None /\ result.k = "dict") =>
        /\ (snapshot.available_trades = <<>> \/ snapshot.competing_trades = <<>>)
               => result.items.market_making = <<>>
        /\ \A i \in 1..Len(result.items.market_making) :
              /\ result.items.market_making[i].bid_price = FormatRatio(MakingBid(snapshot))
              /\ result.items.market_making[i].ask_price = FormatRatio(MakingAsk(snapshot))

\* C19: for a scored pair the strategy takes bid = the minimum parsed
\* available rate and ask = the maximum parsed competing rate, skips the pair
\* when bid or ask is not positive, computes the confidence as the mean of
\* min(volume/1000, 1), max(0, 1 - volatility*10) and min(spread*5, 1) with
\* spread = (ask - bid)/bid, and emits the pair if and only if the
\* confidence exceeds 0.5.
C19_MakingScores ==
    (result # None /\ result.k = "dict") =>
        \A i \in 1..Len(market_history) :
            LET e == market_history[i]
                out == MakingOf(result, e.key)
            IN  /\ Len(out) <= 1
                /\ Len(out) = 1 <=> MakingCondition(market_history, e)
                /\ Len(out) = 1 =>
                      /\ out[1].bid_price = FormatRatio(MakingBid(e.data))
                      /\ out[1].ask_price = FormatRatio(MakingAsk(e.data))
                      /\ out[1].spread = MakingSpread(MakingBid(e.data), MakingAsk(e.data))
                      /\ out[1].volume = e.data.available_trades[1].stock
                      /\ out[1].confidence = MakingConfidence(market_history, e)

\* available 3.5:1 (stock 1500) and 3:1 against competing 3.5:1: the bid is
\* the second quote, the scores are 1, 3/13 and 5/6, the confidence 161/234
C19_Witness ==
    /\ result # None
    /\ result.k = "dict"
    /\ Len(result.items.market_making) = 1
    /\ result.items.market_making[1].bid_price = FormatRatio(Fin(3, 1))
    /\ result.items.market_making[1].ask_price = FormatRatio(Fin(7, 2))
    /\ result.items.market_making[1].confidence = Fin(161, 234)

\* a confidence of exactly 0.5 is scored and not emitted
C19_OnThreshold ==
    /\ result # None
    /\ result.k = "dict"
    /\ Len(market_history) = 1
    /\ MakingScored(market_history[1])
    /\ MakingConfidence(market_history, market_history[1]) = Fin(1, 2)
    /\ result.items.market_making = <<>>

\* 0 <= x <= 1
InUnit(x) == x.k = "fin" /\ 0 <= x.n /\ x.n <= x.d

\* C20: every opportunity in the three lists returned by analyze has a
\* confidence in the closed interval [0, 1].
C20_ConfidenceInUnit ==
    (result # None /\ result.k = "dict") =>
        /\ \A i \in 1..Len(result.items.basic) : InUnit(result.items.basic[i][2].confidence)
        /\ \A i \in 1..Len(result.items.triangle) : InUnit(result.items.triangle[i].confidence)
        /\ \A i \in 1..Len(result.items.market_making) :
              InUnit(result.items.market_making[i].confidence)

\* the three lists are non-empty and a triangle confidence sits on the cap
C20_Witness ==
    /\ result # None
    /\ result.k = "dict"
    /\ Len(result.items.basic) = 2
    /\ result.items.triangle # <<>>
    /\ result.items.triangle[1].confidence = Fin(1, 1)
    /\ result.items.triangle[1].total_profit = Fin(26, 1)
    /\ result.items.market_making # <<>>

BestRates(h, pair) ==
    LET es == Entries(h, pair)
        rates == [i \in 1..Len(es) |->
                     IF es[i].data.available_trades = <<>> THEN Zero
                     ELSE parse(es[i].data.available_trades[1].ratio)]
    IN  SelectSeq(rates, Positive)

\* the positive rates among all available quotes of the history entry of a
\* pair
QuoteRates(h, pair) ==
    IF Entries(h, pair) = <<>> THEN <<>>
    ELSE LET quotes == Entries(h, pair)[Len(Entries(h, pair))].data.available_trades
         IN  SelectSeq([i \in 1..Len(quotes) |-> parse(quotes[i].ratio)], Positive)

AllEqual(rates) == \A i, j \in 1..Len(rates) : rates[i] = rates[j]

\* v is the population standard deviation of the finite rates divided by
\* their mean: v >= 0 and v^2 * mean^2 = mean of the squared deviations
IsDeviationOverMean(v, rates) ==
    LET mean == FloatDiv(FloatSum(rates), Fin(Len(rates), 1))
        squares == [i \in 1..Len(rates) |->
                       FloatMul(FloatAdd(rates[i], FloatNeg(mean)),
                                FloatAdd(rates[i], FloatNeg(mean)))]
        variance == FloatDiv(FloatSum(squares), Fin(Len(rates), 1))
    IN  /\ v.k = "fin"
        /\ v.n >= 0
        /\ FloatMul(FloatMul(v, v), FloatMul(mean, mean)) = variance

\* the volatility the rates give: 0.0 for none or for equal rates
IsVolatilityOf(v, rates) ==
    IF rates = <<>> THEN v = Zero
    ELSE IF \E i \in 1..Len(rates) : rates[i].k = "inf" THEN v = NaN
    ELSE IF AllEqual(rates) THEN v = Zero
    ELSE IsDeviationOverMean(v, rates)

\* C22 (as claimed): volatility(pair) is computed from the first available
\* quote of every history entry of the pair after discarding non-positive
\* rates; quotes other than the first of a snapshot do not influence it.
C22_VolatilityOfBestRates ==
    measured # None =>
        IsVolatilityOf(measured.value, BestRates(market_history, measured.pair))

\* C22 (amended): volatility(pair) is computed from the rates of all
\* available quotes of the one history entry of the pair after discarding
\* non-positive rates: 0.0 when the pair is unknown or no positive rate
\* exists, 0.0 when the remaining rates are equal, otherwise their population
\* standard deviation divided by their mean (nan when a rate is unbounded).
C22_VolatilityOfQuotes ==
    measured # None =>
        IsVolatilityOf(measured.value, QuoteRates(market_history, measured.pair))

\* available quotes 3:1 and 3.5:1 of one snapshot: volatility 1/13
C22_Witness ==
    /\ measured # None
    /\ Len(Entries(market_history, measured.pair)) = 1
    /\ Len(QuoteRates(market_history, measured.pair)) = 2
    /\ measured.value = Fin(1, 13)

\* ------------------------------------------------------ claims on the bot
\* C23: execute_trade selects an opportunity whose confidence is the maximum
\* over the three lists returned by analyze; on equal confidence the earlier
\* list (basic, triangle, market making) and the earlier element win; none
\* is selected only when every list is empty or every confidence is 0.
C23_BestPick ==
    (picked # None /\ picked.k = "best") =>
        LET all == Candidates(result.items)
        IN  IF picked.best_opp = None
            THEN \A j \in 1..Len(all) : all[j][3].confidence = Zero
            ELSE \E i \in 1..Len(all) :
                    /\ picked.best_opp = all[i]
                    /\ \A j \in 1..Len(all) :
                          ~FloatGt(all[j][3].confidence, all[i][3].confidence)
                    /\ \A j \in 1..(i - 1) :
                          all[j][3].confidence # all[i][3].confidence

\* the three lists are non-empty; the first of several Triangle
\* opportunities of confidence 1 is selected over the Basic ones before it
C23_Witness ==
    /\ picked # None
    /\ picked.k = "best"
    /\ result.items.basic # <<>>
    /\ result.items.market_making # <<>>
    /\ Len(result.items.triangle) >= 2
    /\ result.items.triangle[1].confidence = result.items.triangle[2].confidence
    /\ picked.best_opp = <<"triangle", "Triangle Arbitrage", result.items.triangle[1]>>

\* no list holds an opportunity and none is selected
C23_NoneSelected ==
    /\ picked # None
    /\ picked.k = "best"
    /\ picked.best_opp = None

\* some opportunity of the result has confidence >= 0.8
SomeConfident(r) ==
    \E j \in 1..Len(Candidates(r.items)) :
        LET c == Candidates(r.items)[j][3].confidence
        IN  c.k = "fin" /\ 10 * c.n >= 8 * c.d

\* the summed stock of the available quotes
Liquidity(md) ==
    LET Sum[i \in 0..Len(md.available_trades)] ==
            IF i = 0 THEN 0 ELSE Sum[i - 1] + md.available_trades[i].stock
    IN  Sum[Len(md.available_trades)]

\* C30: evaluate_opportunity returns True if and only if the summed stock of
\* the snapshot's available quotes is at least min_liquidity (100) and some
\* opportunity of the three lists has confidence >= min_confidence (0.8);
\* below the liquidity floor it returns False without running a strategy.
C30_EvaluateOpportunity ==
    worth # None =>
        /\ worth.k = "return"
        /\ Liquidity(snapshot) < 100 => (worth.value = FALSE /\ result = None)
        /\ Liquidity(snapshot) >= 100 =>
              (result # None /\ result.k = "dict" /\ worth.value = SomeConfident(result))

\* two quotes of stock 50 reach the floor of 100 together, the analysis runs
\* and its best confidence decides
C30_Witness ==
    /\ worth # None
    /\ Len(snapshot.available_trades) = 2
    /\ snapshot.available_trades[1].stock = 50
    /\ Liquidity(snapshot) = 100
    /\ result # None
    /\ worth.value = TRUE

\* --------------------------------------------- claims on one-way scanning
\* every pair of the history is (a, b) with a before b in one total order
\* of the currencies
OneDirection(h) ==
    \E o \in IterationOrders(Currencies) :
        \A i \in 1..Len(h) :
            (CHOOSE m \in 1..Len(o) : o[m] = h[i].key[1])
                < (CHOOSE m \in 1..Len(o) : o[m] = h[i].key[2])

\* C27: when every recorded pair is (a, b) with a before b in one fixed
\* total order of the currencies, the triangle strategy emits nothing.
C27_OneDirectionNoTriangle ==
    (result # None /\ result.k = "dict" /\ OneDirection(market_history))
        => result.items.triangle = <<>>

\* the three pairs of three currencies are tracked in one direction, each
\* with a positive rate of 3, all currencies known: no triangle is emitted
C27_Witness ==
    /\ result # None
    /\ result.k = "dict"
    /\ Keys(market_history) = {OrderedPairs[i] : i \in 1..3}
    /\ Cardinality(known_currencies) = 3
    /\ \A i \in 1..3 : LegRate(market_history, OrderedPairs[i]) = Fin(3, 1)
    /\ result.items.triangle = <<>>

\* C28 (as claimed): every emitted MarketMaking opportunity has ask >= bid,
\* that is a non-negative spread.
C28_AskNotBelowBid ==
    (result # None /\ result.k = "dict") =>
        \A i \in 1..Len(result.items.market_making) :
            /\ ~FloatLt(result.items.market_making[i].ask_price.value,
                        result.items.market_making[i].bid_price.value)
            /\ ~FloatLt(result.items.market_making[i].spread, Zero)

\* ----------------------------------------------------- claims on SpecRecord
\* C25: after any sequence of update_market_history calls every pair key of
\* market_history has both its currencies in known_currencies, and the pair
\* recorded by the most recent successful call is present with the data of
\* that call.
C25_RecordedPairPresent ==
    /\ \A i \in 1..Len(market_history) :
          /\ market_history[i].key[1] \in known_currencies
          /\ market_history[i].key[2] \in known_currencies
    /\ (attempt # None /\ attempt.last # None) =>
          /\ Len(Entries(market_history, attempt.last.pair)) = 1
          /\ Entries(market_history, attempt.last.pair)[1].data = attempt.last.data

\* the last of three successful calls evicted an older pair and its own pair
\* is present
C25_Witness ==
    /\ attempt # None
    /\ attempt.outcome = None
    /\ records = 3
    /\ Cardinality(recorded) = 3
    /\ Len(market_history) < 3
    /\ Len(Entries(market_history, attempt.pair)) = 1

\* the dict lacks one of the two trade lists
LacksTrades(data) ==
    "available_trades" \notin DOMAIN data \/ "competing_trades" \notin DOMAIN data

\* C26: update_market_history given data without the available_trades or
\* the competing_trades field fails with an error and leaves market_history
\* and known_currencies as they were before the call.
C26_PartialDataChangesNothing ==
    [][(attempt' # attempt /\ LacksTrades(attempt'.data)) =>
           /\ attempt'.outcome.k = "raise"
           /\ market_history' = market_history
           /\ known_currencies' = known_currencies]_vars

\* a call with the dict of the test mode (market_ratio and available_trades
\* only) has failed on a history that holds an earlier record
C26_Witness ==
    /\ attempt # None
    /\ DOMAIN attempt.data = {"market_ratio", "available_trades"}
    /\ attempt.outcome = Raise("KeyError")
    /\ attempt.last # None
    /\ market_history # <<>>

\* ----------------------------------------------------- claims on SpecShared
\* no entry is stale against the newest one, and the currencies of every
\* tracked pair are known: what a completed update_market_history leaves
ConsistentHistory ==
    /\ \A i \in 1..Len(market_history) :
          /\ market_history[i].key[1] \in known_currencies
          /\ market_history[i].key[2] \in known_currencies
    /\ \A i, j \in 1..Len(market_history) :
          market_history[i].timestamp > market_history[j].timestamp - history_window

\* C24: an analysis that interleaves with a record on the same history
\* observes one consistent history: never one in which the new entry is
\* inserted while stale entries are not yet evicted or the known currencies
\* not yet updated.
C24_AnalyzeObservesConsistentHistory ==
    [][result' # result /\ result' # None => ConsistentHistory]_vars

\* ------------------------------------- SpecBot: the trade loop of the bot
trade_cooldown == 30
\* time.sleep(5) of the except clause
error_sleep == 5
\* the seconds a scan or a pause of the loop takes
LoopSeconds == {5}
\* the seconds the playback of a trade takes
PlaybackSeconds == {5}
\* the seconds the local clock is set back by
SetBackSeconds == {20}

\* the bot trades one fixed pair; its scans read one of two books
BotSnapshots ==
    {MarketData(<<"divine", "exalt">>, b[1], b[2], b[3]) :
       b \in {<<"3.5:1", <<Trade("3:1", 1500), Trade("3.5:1", 50)>>, <<Trade("3.5:1", 50)>>>>,
              <<"x", <<>>, <<>>>>}}

\* play_sequence calls of a whole playback, by the type of the trade
PlaybackCalls(strategy_type) ==
    CASE strategy_type = "basic" -> 10
      [] strategy_type = "triangle" -> 15
      [] strategy_type = "market_making" -> 5

\* mutant of CooldownActive: the check is skipped
CooldownNever(t, last) == FALSE

\* (datetime.now() - self.last_trade_time).total_seconds() < self.trade_cooldown
CooldownActive(t, last) == t - last < trade_cooldown

\* the loop sleeps, or a scan takes its time
Wait ==
    /\ \E d \in LoopSeconds :
          /\ clock + d <= MaxClock
          /\ clock' = clock + d
    /\ UNCHANGED engineVars
    /\ UNCHANGED <<again, measured, picked, worth, attempt, pc, pending,
                   last_trade_time, traded>>
    /\ UNCHANGED parseVars

\* datetime.now() is local wall-clock time: it is set back when the clock of
\* the machine is corrected
ClockSetBack ==
    /\ \E d \in SetBackSeconds :
          /\ clock - d >= 0
          /\ clock' = clock - d
    /\ UNCHANGED engineVars
    /\ UNCHANGED <<again, measured, picked, worth, attempt, pc, pending,
                   last_trade_time, traded>>
    /\ UNCHANGED parseVars

\* TradingBot.scan_market: the snapshot is recorded at the time of the scan
BotScan ==
    /\ \E md \in BotSnapshots :
          /\ market_history' =
                CleanOld(SetItem(market_history, <<md.i_want, md.i_have>>,
                                 [timestamp |-> clock, data |-> md]),
                         clock - history_window)
          /\ known_currencies' =
                AddKnown(known_currencies, <<md.i_want, md.i_have>>, market_history')
          /\ recorded' = recorded \cup {<<md.i_want, md.i_have>>}
          /\ snapshot' = md
    /\ result' = None
    /\ UNCHANGED <<now, records, walk>>
    /\ UNCHANGED callVars
    /\ UNCHANGED parseVars

\* what execute_trade does with the analysis r, the cooldown being over
TradeWith(r, best_opp) ==
    IF r.k = "raise" \/ best_opp = None
    THEN /\ traded' = [k |-> IF r.k = "raise" THEN "error" ELSE "none",
                       at |-> clock, since |-> last_trade_time, playback |-> 0]
         /\ clock' = IF r.k = "raise" THEN clock + error_sleep ELSE clock
         /\ UNCHANGED last_trade_time
    ELSE \/ \E d \in PlaybackSeconds :
              /\ traded' = [k |-> "completed", at |-> clock, since |-> last_trade_time,
                            playback |-> PlaybackCalls(best_opp[1])]
              /\ last_trade_time' = clock + d
              /\ clock' = clock + d + trade_cooldown
         \/ \E n \in {0, 1} :
              /\ traded' = [k |-> "error", at |-> clock, since |-> last_trade_time,
                            playback |-> n]
              /\ UNCHANGED last_trade_time
              /\ clock' = clock + error_sleep

\* TradingBot.execute_trade(snapshot): the cooldown check, the analysis, the
\* choice of best_opp, the playback and the sleep that follows
ExecuteTrade ==
    /\ snapshot # None
    /\ IF CooldownActive(clock, last_trade_time)
       THEN /\ traded' = [k |-> "cooldown", at |-> clock, since |-> last_trade_time,
                          playback |-> 0]
            /\ UNCHANGED <<clock, last_trade_time, result>>
       ELSE \E r \in analyze_market(market_history, known_currencies,
                                    IterationOrders(known_currencies), snapshot) :
              /\ result' = r
              /\ TradeWith(r, IF r.k = "raise" THEN None ELSE best_opp_of(r.items))
    /\ clock' <= MaxClock
    /\ UNCHANGED <<now, market_history, known_currencies, recorded, records, snapshot, walk>>
    /\ UNCHANGED <<again, measured, picked, worth, attempt, pc, pending>>
    /\ UNCHANGED parseVars

BotNext == Wait \/ ClockSetBack \/ BotScan \/ ExecuteTrade

SpecBot == Init /\ [][BotNext]_vars

\* C29: two trades that execute_trade completes are at least trade_cooldown
\* seconds apart: a call made less than trade_cooldown seconds after the last
\* completed trade performs no playback action, and last_trade_time changes
\* only when a trade completes without error.
C29_TradesCooldownApart ==
    [][/\ last_trade_time' # last_trade_time =>
             /\ traded'.k = "completed"
             /\ last_trade_time' - last_trade_time >= 30
       /\ (traded' # traded /\ clock - last_trade_time < 30) =>
             /\ traded'.playback = 0
             /\ last_trade_time' = last_trade_time]_vars

\* a second trade has completed, trade_cooldown seconds or more after the
\* first one
C29_Witness ==
    /\ traded # None
    /\ traded.k = "completed"
    /\ traded.since > 0
    /\ last_trade_time - traded.since >= 30

====
